---- MODULE Spec2Model ----
(***************************************************************************)
(* Google Delete Workforce User action: the invoke / error / halt          *)
(* lifecycle, credential acquisition and the interpretation of the DELETE  *)
(* response, for the four versions of the script found in the repository:  *)
(*   "sa"    src/src/script.mjs          (service-account key, own JWT)    *)
(*   "ext"   src/unnamed/part_000:1-176  (authentication handled outside)  *)
(*   "jwt"   src/unnamed/part_000:177-338 (google-auth-library JWT client) *)
(*   "utils" src/unnamed/part_001        (@sgnl-actions/utils auth header) *)
(***************************************************************************)
EXTENDS Integers, Sequences, FiniteSets, TLC

(***************************************************************************)
(* Bounds                                                                  *)
(***************************************************************************)
MaxStrLen == 2

(***************************************************************************)
(* JavaScript values. Strings are sequences of one-character strings.      *)
(***************************************************************************)
Undefined == [t |-> "undefined", s |-> <<>>, n |-> 0, b |-> FALSE]
Null == [t |-> "null", s |-> <<>>, n |-> 0, b |-> FALSE]
Str(x) == [t |-> "string", s |-> x, n |-> 0, b |-> FALSE]
Num(k) == [t |-> "number", s |-> <<>>, n |-> k, b |-> FALSE]
Bool(x) == [t |-> "boolean", s |-> <<>>, n |-> 0, b |-> x]
\* an object whose members the model keeps beside it
Object == [t |-> "object", s |-> <<>>, n |-> 0, b |-> FALSE]

TypeOf(v) == IF v.t = "null" THEN "object" ELSE v.t

\* JavaScript truthiness, as used by `!x`, `x || y` and `if (x)`.
Truthy(v) ==
  CASE v.t = "undefined" -> FALSE
    [] v.t = "null" -> FALSE
    [] v.t = "string" -> Len(v.s) > 0
    [] v.t = "number" -> v.n # 0
    [] v.t = "boolean" -> v.b
    [] v.t = "object" -> TRUE

Whitespace == {" "}

RECURSIVE TrimStart(_)
TrimStart(s) ==
  IF Len(s) > 0 /\ Head(s) \in Whitespace THEN TrimStart(Tail(s)) ELSE s

RECURSIVE TrimEnd(_)
TrimEnd(s) ==
  IF Len(s) > 0 /\ s[Len(s)] \in Whitespace
  THEN TrimEnd(SubSeq(s, 1, Len(s) - 1))
  ELSE s

\* String.prototype.trim
Trim(s) == TrimEnd(TrimStart(s))

\* x || y
OrElse(x, y) == IF Truthy(x) THEN x ELSE y

(***************************************************************************)
(* Input domains                                                           *)
(***************************************************************************)
Alphabet == {" ", "p"}

RECURSIVE SeqsUpTo(_)
SeqsUpTo(k) ==
  IF k = 0 THEN {<<>>}
  ELSE LET shorter == SeqsUpTo(k - 1)
       IN shorter \cup {Append(x, c) : x \in shorter, c \in Alphabet}

Strings == SeqsUpTo(MaxStrLen)

\* Values a scheduler may put in an identifier field of params.
IdValues == {Undefined, Null, Num(0), Num(7)} \cup {Str(x) : x \in Strings}

(***************************************************************************)
(* Errors (script.mjs:8-20 and the plain Error of the other versions)      *)
(***************************************************************************)
FatalError(message) ==
  [class |-> "FatalError", retryable |-> Bool(FALSE), statusCode |-> Undefined,
   message |-> message]

RetryableError(message) ==
  [class |-> "RetryableError", retryable |-> Bool(TRUE), statusCode |-> Undefined,
   message |-> message]

\* new Error(message) with error.statusCode = statusCode; no retryable property
PlainError(message, statusCode) ==
  [class |-> "Error", retryable |-> Undefined, statusCode |-> statusCode,
   message |-> message]

\* an exception of the runtime (SyntaxError of JSON.parse, TypeError of fetch)
RuntimeError(class, message) ==
  [class |-> class, retryable |-> Undefined, statusCode |-> Undefined,
   message |-> message]

NoError ==
  [class |-> "none", retryable |-> Undefined, statusCode |-> Undefined,
   message |-> <<>>]

(***************************************************************************)
(* Execution context                                                       *)
(***************************************************************************)
\* The service-account key secret, described by what the code can observe of
\* it: whether the property exists, whether it is a non-empty string, whether
\* it decodes to JSON, whether its private_key signs, and its project_id.
Key(present, nonempty, json, signable, project_id) ==
  [present |-> present, nonempty |-> nonempty, json |-> json,
   signable |-> signable, project_id |-> project_id]

ProjectInKey == Str(<<"test-project-123">>)

Keys ==
  { Key(FALSE, FALSE, FALSE, FALSE, Undefined),
    Key(TRUE, FALSE, FALSE, FALSE, Undefined),
    Key(TRUE, TRUE, FALSE, FALSE, Undefined),
    Key(TRUE, TRUE, TRUE, FALSE, ProjectInKey),
    Key(TRUE, TRUE, TRUE, TRUE, Undefined),
    Key(TRUE, TRUE, TRUE, TRUE, ProjectInKey) }

\* context.secrets: `defined` is FALSE when the context has no secrets object.
Secrets == [defined : BOOLEAN, service_account_key : Keys]

Addresses == {Undefined, Str(<<"https://iam.example.test">>)}

Contexts == [secrets : {x \in Secrets : x.defined \/ ~x.service_account_key.present},
             env : [ADDRESS : Addresses]]

\* mutant: only the presence of the secrets object is tested
HasSecretsObject(context) == context.secrets.defined

\* context.secrets?.service_account_key is truthy
HasServiceAccountKey(context) ==
  /\ context.secrets.defined
  /\ context.secrets.service_account_key.present
  /\ context.secrets.service_account_key.nonempty

(***************************************************************************)
(* Params                                                                  *)
(***************************************************************************)
ProjectValues == {Undefined, Str(<<"proj-param">>)}

\* workforce_pool_id / subject_id / project_id are workforcePoolId /
\* subjectId / projectId in the camel-case versions.
InvokeParams ==
  [workforce_pool_id : IdValues, subject_id : IdValues,
   project_id : ProjectValues, address : Addresses]

\* mutant: validation that forgets the second required field
validateInputsFirstOnly(p) ==
  IF ~Truthy(p.workforce_pool_id) \/ TypeOf(p.workforce_pool_id) # "string"
     \/ Trim(p.workforce_pool_id.s) = <<>>
  THEN "workforce_pool_id"
  ELSE "none"

\* script.mjs validateInputs: the first required field that is falsy, not a
\* string or blank after trim; "none" when both pass.
validateInputs(p) ==
  LET bad(v) == ~Truthy(v) \/ TypeOf(v) # "string" \/ Trim(v.s) = <<>>
  IN IF bad(p.workforce_pool_id) THEN "workforce_pool_id"
     ELSE IF bad(p.subject_id) THEN "subject_id"
     ELSE "none"

\* The camel-case versions: `!x || typeof x !== 'string'`, in the order the
\* version tests them (part_001 tests subjectId first).
validateCamel(v, p) ==
  LET bad(x) == ~Truthy(x) \/ TypeOf(x) # "string"
  IN IF v = "utils"
     THEN IF bad(p.subject_id) THEN "subjectId"
          ELSE IF bad(p.workforce_pool_id) THEN "workforcePoolId"
          ELSE "none"
     ELSE IF bad(p.workforce_pool_id) THEN "workforcePoolId"
          ELSE IF bad(p.subject_id) THEN "subjectId"
          ELSE "none"

(***************************************************************************)
(* HTTP                                                                    *)
(***************************************************************************)
MaxTime == 2
Times == 1..MaxTime

TokenUrl == <<"https://oauth2.googleapis.com/token">>
DefaultBaseUrl == <<"https://iam.googleapis.com">>

\* Response bodies: text() and what JSON.parse makes of it.
Body(text, json, message) == [text |-> text, json |-> json, message |-> message]
EmptyBody == Body(<<>>, FALSE, Undefined)
TextBody == Body(<<"upstream unavailable">>, FALSE, Undefined)
JsonBody ==
  Body(<<"{\"error\":{\"message\":\"", "quota exceeded", "\"}}">>, TRUE,
       Str(<<"quota exceeded">>))
Bodies == {EmptyBody, TextBody, JsonBody}

DeleteStatuses ==
  {200, 204, 301, 400, 401, 403, 404, 409, 429, 500, 501, 502, 503, 504}
DeleteResponses == [status : DeleteStatuses, body : Bodies]

\* Token endpoint answers: a status, a body text, whether json() succeeds and
\* the access_token member of the parsed body.
TokenStatuses == {200, 400, 401, 404, 429, 500, 503}
\* the body of a granted token: JSON whose access_token the response record holds
TokenBody == Body(<<"{\"access_token\":\"...\"}">>, TRUE, Undefined)
Tokens == {Undefined, Str(<<"t1">>), Str(<<"t2">>)}
TokenResponses ==
  {[status |-> st, body |-> b, access_token |-> Undefined] :
      st \in TokenStatuses \ {200}, b \in {TextBody, JsonBody}}
  \cup {[status |-> 200, body |-> TokenBody, access_token |-> tk] : tk \in Tokens}
  \cup {[status |-> 200, body |-> TextBody, access_token |-> Undefined]}

\* Response.ok
Ok(status) == status >= 200 /\ status <= 299

\* `${v}` in a template literal
ToText(v) ==
  CASE v.t = "string" -> v.s
    [] v.t = "undefined" -> <<"undefined">>
    [] v.t = "null" -> <<"null">>
    [] v.t = "number" -> <<ToString(v.n)>>
    [] v.t = "boolean" -> <<ToString(v.b)>>
    [] v.t = "object" -> <<"[object Object]">>

Request(method, url, authorization) ==
  [method |-> method, url |-> url, authorization |-> authorization]

\* `${baseUrl}/v1/locations/global/workforcePools/${pool}/subjects/${subject}`
DeleteUrl(baseUrl, workforcePoolId, subjectId) ==
  baseUrl \o <<"/v1/locations/global/workforcePools/">> \o ToText(workforcePoolId)
          \o <<"/subjects/">> \o ToText(subjectId)

\* mutant: the DELETE of script.mjs is sent with a bearer token of its own
SaDeleteRequestOtherBearer(accessToken, workforce_pool_id, subject_id) ==
  Request("DELETE", DeleteUrl(DefaultBaseUrl, workforce_pool_id, subject_id),
          Str(<<"Bearer ", "t0">>))

\* mutant: the DELETE of script.mjs is sent without headers
SaDeleteRequestNoHeader(accessToken, workforce_pool_id, subject_id) ==
  Request("DELETE", DeleteUrl(DefaultBaseUrl, workforce_pool_id, subject_id),
          Undefined)

\* The fetch of script.mjs deleteWorkforceUser
SaDeleteRequest(accessToken, workforce_pool_id, subject_id) ==
  Request("DELETE", DeleteUrl(DefaultBaseUrl, workforce_pool_id, subject_id),
          Str(<<"Bearer ">> \o ToText(accessToken)))

\* The POST of script.mjs getAccessToken
TokenRequest == Request("POST", TokenUrl, Undefined)

(***************************************************************************)
(* Results of invoke                                                       *)
(***************************************************************************)
NoResult ==
  [status |-> Undefined, workforce_pool_id |-> Undefined, subject_id |-> Undefined,
   deleted |-> Undefined, alreadyDeleted |-> Undefined, at |-> 0]

\* mutant: the result echoes the pool id in both identifier fields
SaSuccessEchoesPoolTwice(p, now) ==
  [status |-> Str(<<"success">>), workforce_pool_id |-> p.workforce_pool_id,
   subject_id |-> p.workforce_pool_id, deleted |-> Undefined,
   alreadyDeleted |-> Undefined, at |-> now]

\* script.mjs:178-183
SaSuccess(p, now) ==
  [status |-> Str(<<"success">>), workforce_pool_id |-> p.workforce_pool_id,
   subject_id |-> p.subject_id, deleted |-> Undefined,
   alreadyDeleted |-> Undefined, at |-> now]

\* part_001:110-115 / :124-130 (and the same literals in part_000)
CamelSuccess(p, already, now) ==
  [status |-> Undefined, workforce_pool_id |-> p.workforce_pool_id,
   subject_id |-> p.subject_id, deleted |-> Bool(TRUE),
   alreadyDeleted |-> IF already THEN Bool(TRUE) ELSE Undefined, at |-> now]

\* mutant: a 404 is a permanent failure like any other 4xx
SaDeleteOutcomeNotFoundFatal(resp) ==
  IF resp.status = 429 \/ resp.status >= 500
  THEN RetryableError(<<"Google Cloud API error (", ToString(resp.status), "): ">>
                      \o resp.body.text)
  ELSE IF ~Ok(resp.status)
  THEN FatalError(<<"Failed to delete workforce user (", ToString(resp.status), "): ">>
                  \o resp.body.text)
  ELSE NoError

\* mutant: only the four gateway statuses are retryable
SaDeleteOutcomeTable(resp) ==
  IF resp.status = 404 THEN NoError
  ELSE IF resp.status \in {429, 502, 503, 504}
  THEN RetryableError(<<"Google Cloud API error (", ToString(resp.status), "): ">>
                      \o resp.body.text)
  ELSE IF ~Ok(resp.status)
  THEN FatalError(<<"Failed to delete workforce user (", ToString(resp.status), "): ">>
                  \o resp.body.text)
  ELSE NoError

\* mutant: rate limiting treated as a permanent failure
SaDeleteOutcomeNo429(resp) ==
  IF resp.status = 404 THEN NoError
  ELSE IF resp.status >= 500
  THEN RetryableError(<<"Google Cloud API error (", ToString(resp.status), "): ">>
                      \o resp.body.text)
  ELSE IF ~Ok(resp.status)
  THEN FatalError(<<"Failed to delete workforce user (", ToString(resp.status), "): ">>
                  \o resp.body.text)
  ELSE NoError

\* script.mjs deleteWorkforceUser after the fetch: the error it throws for a
\* response, NoError when it returns normally.
SaDeleteOutcome(resp) ==
  IF resp.status = 404 THEN NoError
  ELSE IF resp.status = 429 \/ resp.status >= 500
  THEN RetryableError(<<"Google Cloud API error (", ToString(resp.status), "): ">>
                      \o resp.body.text)
  ELSE IF ~Ok(resp.status)
  THEN FatalError(<<"Failed to delete workforce user (", ToString(resp.status), "): ">>
                  \o resp.body.text)
  ELSE NoError

\* mutant: a body that is not JSON is handed on as text
CamelDeleteResultKeepsText(resp) ==
  [success |-> Ok(resp.status), status |-> Num(resp.status),
   data |-> IF resp.body.text = <<>> THEN Null
            ELSE IF resp.body.json THEN resp.body.message
            ELSE Str(resp.body.text),
   error |-> Undefined, errorMessage |-> Undefined]

\* The { success, status, data } record returned by deleteWorkforceUser of
\* part_001 and of part_000 (first script): it has no `error` member.
CamelDeleteResult(resp) ==
  [success |-> Ok(resp.status), status |-> Num(resp.status),
   data |-> IF resp.body.text # <<>> /\ resp.body.json THEN resp.body.message ELSE Null,
   error |-> Undefined, errorMessage |-> Undefined]

\* invoke's error for a failed result: result.error?.error?.message, else a
\* string result.error, else the status code.
CamelError(result) ==
  PlainError(
    IF Truthy(result.errorMessage)
    THEN <<"Failed to delete workforce user: ">> \o ToText(result.errorMessage)
    ELSE IF TypeOf(result.error) = "string"
    THEN <<"Failed to delete workforce user: ">> \o ToText(result.error)
    ELSE <<"Failed to delete workforce user: ">> \o ToText(result.status),
    result.status)

(***************************************************************************)
(* State                                                                   *)
(***************************************************************************)
VARIABLES
  variant,      \* which version of the script is deployed
  pc,           \* position of the invocation of invoke
  params,       \* params of the invocation of invoke
  context,      \* execution context of the invocation of invoke
  http,         \* requests issued by the invocation, in order
  answers,      \* what came back for them, in the same order
  accessToken,  \* the credential held by the invocation
  returned,     \* value returned by invoke (NoResult until it returns)
  thrown,       \* error thrown by invoke (NoError until it throws)
  deleteOutcome,\* what deleteWorkforceUser returned or threw in this invocation
  store,        \* the subjects the remote store holds (by resource URL)
  history,      \* the outcomes of the invocations the scheduler has taken
  parked,       \* a second invocation in flight, while it is not the one running
  errorIn,      \* params given to the error handler
  errorOut,     \* what the error handler returned or threw
  haltIn,       \* params given to halt
  haltOut       \* what halt returned

vars ==
  <<variant, pc, params, context, http, answers, accessToken, returned, thrown,
    deleteOutcome, store, history, parked, errorIn, errorOut, haltIn, haltOut>>

invokeVars ==
  <<pc, params, context, http, answers, accessToken, returned, thrown,
    deleteOutcome>>
handlerVars == <<errorIn, errorOut, haltIn, haltOut>>
\* what surrounds the invocation that is running
storeVars == <<store, history, parked>>

Variants == {"sa", "ext", "jwt", "utils"}

NoParams ==
  [workforce_pool_id |-> Undefined, subject_id |-> Undefined,
   project_id |-> Undefined, address |-> Undefined]

NoContext ==
  [secrets |-> [defined |-> FALSE,
                service_account_key |-> Key(FALSE, FALSE, FALSE, FALSE, Undefined)],
   env |-> [ADDRESS |-> Undefined]]

NoErrorIn ==
  [error |-> [message |-> <<>>, retryable |-> Undefined, statusCode |-> Undefined],
   workforce_pool_id |-> Undefined, subject_id |-> Undefined]

NoErrorOut ==
  [kind |-> "none", status |-> Undefined, retryable |-> Undefined, error |-> <<>>,
   workforce_pool_id |-> Undefined, subject_id |-> Undefined,
   thrown |-> [message |-> <<>>, retryable |-> Undefined, statusCode |-> Undefined]]

NoHaltIn ==
  [reason |-> Undefined, workforce_pool_id |-> Undefined, subject_id |-> Undefined]

NoHaltOut ==
  [kind |-> "none", status |-> Undefined, workforce_pool_id |-> Undefined,
   subject_id |-> Undefined, reason |-> Undefined, at |-> 0,
   cleanupCompleted |-> Undefined]

\* deleteWorkforceUser has not run, returned `result`, returned nothing
\* (script.mjs), or threw e.
NoDeleteResult ==
  [success |-> FALSE, status |-> Undefined, data |-> Undefined,
   error |-> Undefined, errorMessage |-> Undefined]
NoOutcome == [kind |-> "none", result |-> NoDeleteResult, thrown |-> NoError]
Returned(result) == [kind |-> "returned", result |-> result, thrown |-> NoError]
ReturnedNothing == [kind |-> "void", result |-> NoDeleteResult, thrown |-> NoError]
Threw(e) == [kind |-> "thrown", result |-> NoDeleteResult, thrown |-> e]

\* an invocation that has not been called
NoInvocation ==
  [pc |-> "Start", params |-> NoParams, context |-> NoContext, http |-> <<>>,
   answers |-> <<>>, accessToken |-> Undefined, returned |-> NoResult,
   thrown |-> NoError, deleteOutcome |-> NoOutcome]

\* No invocation has been made.
Idle ==
  /\ variant \in Variants
  /\ pc = "Start"
  /\ params = NoParams
  /\ context = NoContext
  /\ http = <<>>
  /\ answers = <<>>
  /\ accessToken = Undefined
  /\ returned = NoResult
  /\ thrown = NoError
  /\ deleteOutcome = NoOutcome
  /\ history = <<>>
  /\ parked = NoInvocation
  /\ errorIn = NoErrorIn
  /\ errorOut = NoErrorOut
  /\ haltIn = NoHaltIn
  /\ haltOut = NoHaltOut

Init == Idle /\ store = {}

(***************************************************************************)
(* invoke                                                                  *)
(***************************************************************************)
\* The pending request is answered with a response, or fails in transport
\* (status 0).
Answered(resp) ==
  answers' = Append(answers, [status |-> resp.status, body |-> resp.body,
                              access_token |-> Undefined])
\* the answer of the token endpoint, with the access_token of its JSON
TokenAnswered(resp) ==
  answers' = Append(answers, [status |-> resp.status, body |-> resp.body,
                              access_token |-> resp.access_token])
TransportFailure ==
  answers' = Append(answers, [status |-> 0, body |-> EmptyBody,
                              access_token |-> Undefined])

\* invoke throws e
Fail(e) ==
  /\ pc' = "Failed"
  /\ thrown' = e
  /\ UNCHANGED <<params, context, http, accessToken, returned>>

\* invoke returns r
Succeed(r) ==
  /\ pc' = "Succeeded"
  /\ returned' = r
  /\ UNCHANGED <<params, context, http, accessToken, thrown>>

\* mutant: getAccessToken lets every exception through as it is
GetAccessTokenCatchRethrows(e) == e

\* script.mjs:78-81, the catch of getAccessToken
GetAccessTokenCatch(e) ==
  IF e.class = "FatalError" THEN e
  ELSE FatalError(<<"Invalid service account key: ">> \o e.message)

\* mutant: the catch of invoke rethrows whatever it caught
InvokeCatchRethrowsAll(e) == e

\* script.mjs:188-197, the catch of invoke
InvokeCatch(e) ==
  IF e.class \in {"RetryableError", "FatalError"} THEN e
  ELSE FatalError(<<"Unexpected error: ">> \o e.message)

\* The members of params and context a version reads; the others are left
\* unset in the inputs given to that version.
Reads(v, p, c) ==
  /\ v # "sa" => p.project_id = Undefined
  /\ v \in {"ext", "utils"} => c.secrets = NoContext.secrets

\* The scheduler calls invoke(p, c).
InvokeCall(p, c) ==
  /\ pc = "Start"
  /\ Reads(variant, p, c)
  /\ pc' = "Validating"
  /\ params' = p
  /\ context' = c
  /\ http' = <<>>
  /\ answers' = <<>>
  /\ accessToken' = Undefined
  /\ returned' = NoResult
  /\ thrown' = NoError
  /\ deleteOutcome' = NoOutcome
  /\ UNCHANGED <<variant, handlerVars, storeVars>>

\* script.mjs:146-158: validateInputs, then the secret check.
SaValidate ==
  /\ variant = "sa"
  /\ pc = "Validating"
  /\ LET bad == validateInputs(params)
     IN IF bad # "none"
        THEN Fail(InvokeCatch(
               FatalError(<<"Missing or invalid required parameter: ", bad>>)))
        ELSE IF ~HasServiceAccountKey(context)
        THEN Fail(InvokeCatch(
               FatalError(<<"Missing required secret: ", "service_account_key">>)))
        ELSE /\ pc' = "Authenticating"
             /\ UNCHANGED <<params, context, http, accessToken, returned, thrown>>
  /\ UNCHANGED <<answers, deleteOutcome>>
  /\ UNCHANGED <<variant, handlerVars, storeVars>>

\* mutant: the token granted to the previous invocation is used again
SaGetAccessTokenCached ==
  /\ variant = "sa"
  /\ pc = "Authenticating"
  /\ LET key == context.secrets.service_account_key
         cached == IF history # <<>> /\ history[Len(history)].answers # <<>>
                   THEN history[Len(history)].answers[1].access_token
                   ELSE Undefined
     IN IF ~key.json
        THEN Fail(InvokeCatch(GetAccessTokenCatch(
               RuntimeError("SyntaxError", <<"Unexpected token in JSON">>))))
        ELSE IF ~key.signable
        THEN Fail(InvokeCatch(GetAccessTokenCatch(
               RuntimeError("Error", <<"error:1E08010C:DECODER routines::unsupported">>))))
        ELSE IF Truthy(cached)
        THEN /\ pc' = "Deleting"
             /\ accessToken' = cached
             /\ http' = Append(http,
                  SaDeleteRequest(cached, params.workforce_pool_id, params.subject_id))
             /\ UNCHANGED <<params, context, returned, thrown>>
        ELSE /\ pc' = "AwaitToken"
             /\ http' = Append(http, TokenRequest)
             /\ UNCHANGED <<params, context, accessToken, returned, thrown>>
  /\ UNCHANGED <<answers, deleteOutcome>>
  /\ UNCHANGED <<variant, handlerVars, storeVars>>

\* script.mjs:27-69: decode the key, sign the assertion, POST it.
SaGetAccessToken ==
  /\ variant = "sa"
  /\ pc = "Authenticating"
  /\ LET key == context.secrets.service_account_key
     IN IF ~key.json
        THEN Fail(InvokeCatch(GetAccessTokenCatch(
               RuntimeError("SyntaxError", <<"Unexpected token in JSON">>))))
        ELSE IF ~key.signable
        THEN Fail(InvokeCatch(GetAccessTokenCatch(
               RuntimeError("Error", <<"error:1E08010C:DECODER routines::unsupported">>))))
        ELSE /\ pc' = "AwaitToken"
             /\ http' = Append(http, TokenRequest)
             /\ UNCHANGED <<params, context, accessToken, returned, thrown>>
  /\ UNCHANGED <<answers, deleteOutcome>>
  /\ UNCHANGED <<variant, handlerVars, storeVars>>

\* mutant: the project id is taken from the parameters only
FinalProjectIdFromParams(p, c) == p.project_id

\* script.mjs:164-168: the project_id parameter, else the project_id of the key
FinalProjectId(p, c) ==
  OrElse(p.project_id, c.secrets.service_account_key.project_id)

\* script.mjs:71-74: the error for a token response that is not ok
TokenExchangeError(resp) ==
  FatalError(<<"Failed to get access token: ">> \o resp.body.text)

\* mutant: the status of the token response is not looked at
SaTokenResponseIgnoresStatus(resp) ==
  /\ variant = "sa"
  /\ pc = "AwaitToken"
  /\ IF ~resp.body.json
     THEN Fail(InvokeCatch(GetAccessTokenCatch(
            RuntimeError("SyntaxError", <<"Unexpected token in JSON">>))))
     ELSE LET finalProjectId == FinalProjectId(params, context)
          IN IF ~Truthy(finalProjectId)
             THEN /\ pc' = "Failed"
                  /\ thrown' = InvokeCatch(FatalError(
                       <<"Project ID not found in service account key and not provided in parameters">>))
                  /\ accessToken' = resp.access_token
                  /\ UNCHANGED <<params, context, http, returned>>
             ELSE /\ pc' = "Deleting"
                  /\ accessToken' = resp.access_token
                  /\ http' = Append(http,
                       SaDeleteRequest(resp.access_token, params.workforce_pool_id,
                                       params.subject_id))
                  /\ UNCHANGED <<params, context, returned, thrown>>
  /\ TokenAnswered(resp)
  /\ UNCHANGED deleteOutcome
  /\ UNCHANGED <<variant, handlerVars, storeVars>>

\* script.mjs:71-77 and :161-176: the token endpoint answers; on success the
\* project id is resolved and the DELETE is sent.
\* mutant: the token is kept in a module-level variable that invocations share
SaTokenResponseSharedToken(resp) ==
  /\ variant = "sa"
  /\ pc = "AwaitToken"
  /\ IF ~Ok(resp.status)
     THEN Fail(InvokeCatch(GetAccessTokenCatch(TokenExchangeError(resp))))
     ELSE IF ~resp.body.json
     THEN Fail(InvokeCatch(GetAccessTokenCatch(
            RuntimeError("SyntaxError", <<"Unexpected token in JSON">>))))
     ELSE LET finalProjectId == FinalProjectId(params, context)
              shared == IF Truthy(parked.accessToken) THEN parked.accessToken
                        ELSE resp.access_token
          IN IF ~Truthy(finalProjectId)
             THEN /\ pc' = "Failed"
                  /\ thrown' = InvokeCatch(FatalError(
                       <<"Project ID not found in service account key and not provided in parameters">>))
                  /\ accessToken' = shared
                  /\ UNCHANGED <<params, context, http, returned>>
             ELSE /\ pc' = "Deleting"
                  /\ accessToken' = shared
                  /\ http' = Append(http,
                       SaDeleteRequest(shared, params.workforce_pool_id,
                                       params.subject_id))
                  /\ UNCHANGED <<params, context, returned, thrown>>
  /\ TokenAnswered(resp)
  /\ UNCHANGED deleteOutcome
  /\ UNCHANGED <<variant, handlerVars, storeVars>>

SaTokenResponse(resp) ==
  /\ variant = "sa"
  /\ pc = "AwaitToken"
  /\ IF ~Ok(resp.status)
     THEN Fail(InvokeCatch(GetAccessTokenCatch(TokenExchangeError(resp))))
     ELSE IF ~resp.body.json
     THEN Fail(InvokeCatch(GetAccessTokenCatch(
            RuntimeError("SyntaxError", <<"Unexpected token in JSON">>))))
     ELSE LET finalProjectId == FinalProjectId(params, context)
          IN IF ~Truthy(finalProjectId)
             THEN /\ pc' = "Failed"
                  /\ thrown' = InvokeCatch(FatalError(
                       <<"Project ID not found in service account key and not provided in parameters">>))
                  /\ accessToken' = resp.access_token
                  /\ UNCHANGED <<params, context, http, returned>>
             ELSE /\ pc' = "Deleting"
                  /\ accessToken' = resp.access_token
                  /\ http' = Append(http,
                       SaDeleteRequest(resp.access_token, params.workforce_pool_id,
                                       params.subject_id))
                  /\ UNCHANGED <<params, context, returned, thrown>>
  /\ TokenAnswered(resp)
  /\ UNCHANGED deleteOutcome
  /\ UNCHANGED <<variant, handlerVars, storeVars>>

\* script.mjs:60 rejects (connection or DNS failure of the token POST).
SaTokenFetchFails ==
  /\ variant = "sa"
  /\ pc = "AwaitToken"
  /\ Fail(InvokeCatch(GetAccessTokenCatch(RuntimeError("TypeError", <<"fetch failed">>))))
  /\ TransportFailure
  /\ UNCHANGED deleteOutcome
  /\ UNCHANGED <<variant, handlerVars, storeVars>>

\* mutant: a retryable answer makes invoke send the DELETE again
SaDeleteResponseResends(resp, now) ==
  /\ variant = "sa"
  /\ pc = "Deleting"
  /\ LET e == SaDeleteOutcome(resp)
     IN IF e.class = "RetryableError"
        THEN /\ pc' = "Deleting"
             /\ http' = Append(http, http[Len(http)])
             /\ UNCHANGED <<params, context, accessToken, returned, thrown>>
        ELSE IF e # NoError
        THEN Fail(InvokeCatch(e))
        ELSE Succeed(SaSuccess(params, now))
  /\ deleteOutcome' = (IF SaDeleteOutcome(resp) # NoError
                       THEN Threw(SaDeleteOutcome(resp)) ELSE ReturnedNothing)
  /\ Answered(resp)
  /\ UNCHANGED <<variant, handlerVars>>

\* script.mjs:105-121 and :178-186: the DELETE is answered.
SaDeleteResponse(resp, now) ==
  /\ variant = "sa"
  /\ pc = "Deleting"
  /\ LET e == SaDeleteOutcome(resp)
     IN /\ IF e # NoError
           THEN Fail(InvokeCatch(e))
           ELSE Succeed(SaSuccess(params, now))
        /\ deleteOutcome' = (IF e # NoError THEN Threw(e) ELSE ReturnedNothing)
  /\ Answered(resp)
  /\ UNCHANGED <<variant, handlerVars>>

\* mutant: after a failed DELETE invoke authenticates again
SaDeleteFetchFailsStartsOver ==
  /\ variant = "sa"
  /\ pc = "Deleting"
  /\ pc' = "Authenticating"
  /\ http' = <<>>
  /\ answers' = <<>>
  /\ UNCHANGED <<params, context, accessToken, returned, thrown, deleteOutcome>>
  /\ UNCHANGED <<variant, handlerVars, storeVars>>

\* script.mjs:97 rejects (connection or DNS failure of the DELETE).
SaDeleteFetchFails ==
  /\ variant = "sa"
  /\ pc = "Deleting"
  /\ Fail(InvokeCatch(RuntimeError("TypeError", <<"fetch failed">>)))
  /\ deleteOutcome' = Threw(RuntimeError("TypeError", <<"fetch failed">>))
  /\ TransportFailure
  /\ UNCHANGED <<variant, handlerVars, storeVars>>

(***************************************************************************)
(* invoke of the camel-case versions (part_000, part_001)                  *)
(***************************************************************************)
\* getBaseURL(params, context) of @sgnl-actions/utils as part_001:86-93 uses it:
\* the address parameter, else the ADDRESS of the environment, else (the call
\* throws and) the default host.
BaseUrl(p, c) ==
  IF Truthy(p.address) THEN p.address.s
  ELSE IF Truthy(c.env.ADDRESS) THEN c.env.ADDRESS.s
  ELSE DefaultBaseUrl

\* Authorization values getAuthorizationHeader can hand to part_001:96.
AuthHeaders == {Str(<<"Bearer ", "t1">>), Str(<<"Basic ", "dXNlcjpwYXNz">>)}

\* part_000:216-223: what the catch around authClient.request builds from a
\* response with an error status (error.response.status, error.response.data
\* or, when the data is empty, error.message).
JwtHttpFailure(resp) ==
  [success |-> FALSE, status |-> Num(resp.status), data |-> Undefined,
   error |-> IF resp.body.json THEN Object
             ELSE IF resp.body.text # <<>> THEN Str(resp.body.text)
             ELSE Str(<<"Request failed with status code ", ToString(resp.status)>>),
   errorMessage |-> IF resp.body.json THEN resp.body.message ELSE Undefined]

\* part_000:216-223 for an error that carries no response: error.code and
\* error.message.
JwtLocalFailure(code, message) ==
  [success |-> FALSE, status |-> code, data |-> Undefined,
   error |-> Str(message), errorMessage |-> Undefined]

\* part_001:106-145 (the same text at part_000:98-137 and :260-299): map the
\* result of deleteWorkforceUser to invoke's return value or error.
CamelFinish(result, now) ==
  /\ deleteOutcome' = Returned(result)
  /\ IF result.success
     THEN Succeed(CamelSuccess(params, FALSE, now))
     ELSE IF result.status = Num(404)
     THEN Succeed(CamelSuccess(params, TRUE, now))
     ELSE Fail(CamelError(result))

\* part_001:78-96, part_000:83-96, part_000:240-258
CamelValidate ==
  /\ variant \in {"ext", "jwt", "utils"}
  /\ pc = "Validating"
  /\ LET bad == validateCamel(variant, params)
     IN IF bad # "none"
        THEN Fail(PlainError(<<"Invalid or missing ", bad, " parameter">>, Undefined))
        ELSE IF variant = "ext"
        THEN /\ pc' = "Deleting"
             /\ http' = Append(http,
                  Request("DELETE",
                          DeleteUrl(DefaultBaseUrl, params.workforce_pool_id,
                                    params.subject_id),
                          Undefined))
             /\ UNCHANGED <<params, context, accessToken, returned, thrown>>
        ELSE IF variant = "jwt" /\ ~HasServiceAccountKey(context)
        THEN Fail(PlainError(<<"Missing required secret: ", "GOOGLE_SERVICE_ACCOUNT_KEY">>,
                             Undefined))
        ELSE /\ pc' = "Authenticating"
             /\ UNCHANGED <<params, context, http, accessToken, returned, thrown>>
  /\ UNCHANGED <<answers, deleteOutcome>>
  /\ UNCHANGED <<variant, handlerVars, storeVars>>

\* part_000:190-209: parse the key, build the JWT client, start the request
\* (the client first exchanges a signed assertion for a token).
JwtRequest(now) ==
  /\ variant = "jwt"
  /\ pc = "Authenticating"
  /\ LET key == context.secrets.service_account_key
     IN IF ~key.json
        THEN /\ Fail(RuntimeError("SyntaxError", <<"Unexpected token in JSON">>))
             /\ deleteOutcome' =
                  Threw(RuntimeError("SyntaxError", <<"Unexpected token in JSON">>))
        ELSE IF ~key.signable
        THEN CamelFinish(JwtLocalFailure(Str(<<"ERR_OSSL_UNSUPPORTED">>),
                           <<"error:1E08010C:DECODER routines::unsupported">>), now)
        ELSE /\ pc' = "AwaitToken"
             /\ http' = Append(http, TokenRequest)
             /\ UNCHANGED <<params, context, accessToken, returned, thrown,
                            deleteOutcome>>
  /\ UNCHANGED answers
  /\ UNCHANGED <<variant, handlerVars, storeVars>>

\* The token endpoint answers the JWT client of part_000:206.
JwtTokenResponse(resp, now) ==
  /\ variant = "jwt"
  /\ pc = "AwaitToken"
  /\ IF ~Ok(resp.status)
     THEN CamelFinish(JwtHttpFailure(resp), now)
     ELSE IF ~resp.body.json \/ ~Truthy(resp.access_token)
     THEN CamelFinish(JwtLocalFailure(Undefined, <<"Could not refresh access token.">>), now)
     ELSE /\ pc' = "Deleting"
          /\ accessToken' = resp.access_token
          /\ http' = Append(http,
               Request("DELETE",
                       DeleteUrl(DefaultBaseUrl, params.workforce_pool_id,
                                 params.subject_id),
                       Str(<<"Bearer ">> \o ToText(resp.access_token))))
          /\ UNCHANGED <<params, context, returned, thrown, deleteOutcome>>
  /\ TokenAnswered(resp)
  /\ UNCHANGED <<variant, handlerVars, storeVars>>

\* A connection failure inside authClient.request (either round trip).
JwtFetchFails(now) ==
  /\ variant = "jwt"
  /\ pc \in {"AwaitToken", "Deleting"}
  /\ CamelFinish(JwtLocalFailure(Str(<<"ENOTFOUND">>),
                   <<"getaddrinfo ENOTFOUND">>), now)
  /\ TransportFailure
  /\ UNCHANGED <<variant, handlerVars, storeVars>>

\* part_001:96 resolves with an Authorization value; the DELETE is sent.
UtilsAuthorizationHeader(authHeader) ==
  /\ variant = "utils"
  /\ pc = "Authenticating"
  /\ pc' = "Deleting"
  /\ accessToken' = authHeader
  /\ http' = Append(http,
       Request("DELETE",
               DeleteUrl(BaseUrl(params, context), params.workforce_pool_id,
                         params.subject_id),
               authHeader))
  /\ UNCHANGED <<params, context, returned, thrown>>
  /\ UNCHANGED <<answers, deleteOutcome>>
  /\ UNCHANGED <<variant, handlerVars, storeVars>>

\* part_001:96 rejects (no usable secret, or its token exchange failed).
UtilsAuthorizationFails ==
  /\ variant = "utils"
  /\ pc = "Authenticating"
  /\ Fail(RuntimeError("Error", <<"No authentication configured">>))
  /\ UNCHANGED <<answers, deleteOutcome>>
  /\ UNCHANGED <<variant, handlerVars, storeVars>>

\* The DELETE is answered.
CamelDeleteResponse(resp, now) ==
  /\ variant \in {"ext", "jwt", "utils"}
  /\ pc = "Deleting"
  /\ IF variant = "jwt"
     THEN IF Ok(resp.status)
          THEN CamelFinish([success |-> TRUE, status |-> Num(resp.status),
                            data |-> Undefined, error |-> Undefined,
                            errorMessage |-> Undefined], now)
          ELSE CamelFinish(JwtHttpFailure(resp), now)
     ELSE CamelFinish(CamelDeleteResult(resp), now)
  /\ Answered(resp)
  /\ UNCHANGED <<variant, handlerVars>>

\* part_001:19 / part_000:17 rejects: nothing catches it.
CamelDeleteFetchFails ==
  /\ variant \in {"ext", "utils"}
  /\ pc = "Deleting"
  /\ Fail(RuntimeError("TypeError", <<"fetch failed">>))
  /\ deleteOutcome' = Threw(RuntimeError("TypeError", <<"fetch failed">>))
  /\ TransportFailure
  /\ UNCHANGED <<variant, handlerVars, storeVars>>

\* The scheduler has taken the outcome of invoke; the next job may start.
\* Nothing of the finished invocation is kept (script.mjs has no module state).
InvokeSettled ==
  /\ pc \in {"Succeeded", "Failed"}
  /\ pc' = "Start"
  /\ params' = NoParams
  /\ context' = NoContext
  /\ http' = <<>>
  /\ answers' = <<>>
  /\ accessToken' = Undefined
  /\ returned' = NoResult
  /\ thrown' = NoError
  /\ deleteOutcome' = NoOutcome
  /\ UNCHANGED <<variant, handlerVars>>

(***************************************************************************)
(* The invoke lifecycle                                                    *)
(***************************************************************************)
Next ==
  \/ pc = "Start" /\ \E p \in InvokeParams, c \in Contexts : InvokeCall(p, c)
  \/ InvokeSettled /\ UNCHANGED storeVars
  \/ SaValidate
  \/ SaGetAccessToken
  \/ pc = "AwaitToken" /\ \E resp \in TokenResponses : SaTokenResponse(resp)
  \/ SaTokenFetchFails
  \/ /\ pc = "Deleting"
     /\ \E resp \in DeleteResponses, now \in Times : SaDeleteResponse(resp, now)
     /\ UNCHANGED storeVars
  \/ SaDeleteFetchFails
  \/ CamelValidate
  \/ \E now \in Times : JwtRequest(now)
  \/ pc = "AwaitToken" /\ \E resp \in TokenResponses, now \in Times : JwtTokenResponse(resp, now)
  \/ \E now \in Times : JwtFetchFails(now)
  \/ \E h \in AuthHeaders : UtilsAuthorizationHeader(h)
  \/ UtilsAuthorizationFails
  \/ /\ pc = "Deleting"
     /\ \E resp \in DeleteResponses, now \in Times : CamelDeleteResponse(resp, now)
     /\ UNCHANGED storeVars
  \/ CamelDeleteFetchFails

Spec == Init /\ [][Next]_vars

(***************************************************************************)
(* error                                                                   *)
(***************************************************************************)
Messages == {<<"Rate limit exceeded">>, <<"Invalid credentials">>}

\* The error member of the params given to the error handler: absent, or an
\* object { message, retryable, statusCode }.
ErrorValues ==
  {[defined |-> FALSE, message |-> <<>>, retryable |-> Undefined,
    statusCode |-> Undefined]}
  \cup [defined : {TRUE}, message : Messages,
        retryable : {Undefined, Bool(TRUE), Bool(FALSE), Num(1), Str(<<>>)},
        statusCode : {Undefined, Num(429), Num(403)}]

ErrorParams ==
  [error : ErrorValues, workforce_pool_id : IdValues, subject_id : IdValues]

\* mutant: the handler reports every failure as retryable
SaErrorRecordAlwaysRetryable(p) ==
  [kind |-> "returned", status |-> Str(<<"failed">>), retryable |-> Bool(TRUE),
   error |-> p.error.message, workforce_pool_id |-> p.workforce_pool_id,
   subject_id |-> p.subject_id, thrown |-> NoErrorOut.thrown]

\* script.mjs:211-230: both branches build the same record, retryable being
\* the literal of the branch taken.
SaErrorRecord(p) ==
  [kind |-> "returned", status |-> Str(<<"failed">>),
   retryable |-> IF Truthy(p.error.retryable) THEN Bool(TRUE) ELSE Bool(FALSE),
   error |-> p.error.message, workforce_pool_id |-> p.workforce_pool_id,
   subject_id |-> p.subject_id, thrown |-> NoErrorOut.thrown]

\* What escapes a handler as a thrown value.
Thrown(message, retryable, statusCode) ==
  [NoErrorOut EXCEPT !.kind = "thrown",
     !.thrown = [message |-> message, retryable |-> retryable,
                 statusCode |-> statusCode]]

\* mutant: every version answers with the record of script.mjs
ErrorCallReturnsRecord(p) ==
  /\ errorOut.kind = "none"
  /\ errorIn' = p
  /\ errorOut' =
       IF ~p.error.defined
       THEN Thrown(<<"Cannot read properties of undefined (reading 'message')">>,
                   Undefined, Undefined)
       ELSE SaErrorRecord(p)
  /\ UNCHANGED <<variant, invokeVars, storeVars, haltIn, haltOut>>

\* script.mjs:206-231; part_001:156-163 and part_000:146-153, :308-315 throw
\* params.error. Reading error.message of an absent error is a TypeError.
ErrorCall(p) ==
  /\ errorOut.kind = "none"
  /\ errorIn' = p
  /\ errorOut' =
       IF ~p.error.defined
       THEN Thrown(<<"Cannot read properties of undefined (reading 'message')">>,
                   Undefined, Undefined)
       ELSE IF variant = "sa" THEN SaErrorRecord(p)
       ELSE Thrown(p.error.message, p.error.retryable, p.error.statusCode)
  /\ UNCHANGED <<variant, invokeVars, storeVars, haltIn, haltOut>>

\* The scheduler has taken the outcome of the error handler.
ErrorSettled ==
  /\ errorOut.kind # "none"
  /\ errorIn' = NoErrorIn
  /\ errorOut' = NoErrorOut
  /\ UNCHANGED <<variant, invokeVars, storeVars, haltIn, haltOut>>

NextError ==
  \/ errorOut.kind = "none" /\ \E p \in ErrorParams : ErrorCall(p)
  \/ ErrorSettled

ErrorSpec == Init /\ [][NextError]_vars

(***************************************************************************)
(* halt                                                                    *)
(***************************************************************************)
Reasons == {Undefined, Str(<<"timeout">>), Str(<<"system_shutdown">>)}

HaltParams ==
  [reason : Reasons, workforce_pool_id : IdValues, subject_id : IdValues]

Unknown == Str(<<"unknown">>)

\* x ?? y, the operator the written contract of halt uses
Nullish(x, y) == IF x.t \in {"undefined", "null"} THEN y ELSE x

\* mutant: the fallback is taken only for null and undefined (??)
HaltRecordNullish(v, p, now) ==
  [kind |-> "returned",
   status |-> IF v = "sa" THEN Str(<<"halted">>) ELSE Undefined,
   workforce_pool_id |-> Nullish(p.workforce_pool_id, Str(<<"unknown">>)),
   subject_id |-> Nullish(p.subject_id, Str(<<"unknown">>)),
   reason |-> p.reason, at |-> now,
   cleanupCompleted |-> IF v = "sa" THEN Undefined ELSE Bool(TRUE)]

\* mutant: halt echoes the identifiers without a fallback
HaltRecordNoFallback(v, p, now) ==
  [kind |-> "returned",
   status |-> IF v = "sa" THEN Str(<<"halted">>) ELSE Undefined,
   workforce_pool_id |-> p.workforce_pool_id,
   subject_id |-> p.subject_id,
   reason |-> p.reason, at |-> now,
   cleanupCompleted |-> IF v = "sa" THEN Undefined ELSE Bool(TRUE)]

\* script.mjs:244-250; part_001:180-186 and part_000:168-174, :330-336 have
\* cleanupCompleted in place of status.
HaltRecord(v, p, now) ==
  [kind |-> "returned",
   status |-> IF v = "sa" THEN Str(<<"halted">>) ELSE Undefined,
   workforce_pool_id |-> OrElse(p.workforce_pool_id, Unknown),
   subject_id |-> OrElse(p.subject_id, Unknown),
   reason |-> p.reason, at |-> now,
   cleanupCompleted |-> IF v = "sa" THEN Undefined ELSE Bool(TRUE)]

\* mutant: halt aborts the invocation that is in flight
HaltCallAborts(p, now) ==
  /\ haltOut.kind = "none"
  /\ haltIn' = p
  /\ haltOut' = HaltRecord(variant, p, now)
  /\ pc' = IF pc \in {"AwaitToken", "Deleting"} THEN "Failed" ELSE pc
  /\ UNCHANGED <<variant, params, context, http, answers, accessToken, returned,
                 thrown, deleteOutcome, storeVars, errorIn, errorOut>>

\* The scheduler calls halt(p, context).
\* mutant: halt writes the fallback identifiers into the params it was given
HaltCallFillsParams(p, now) ==
  /\ haltOut.kind = "none"
  /\ haltIn' = [p EXCEPT !.workforce_pool_id = OrElse(p.workforce_pool_id, Unknown),
                         !.subject_id = OrElse(p.subject_id, Unknown)]
  /\ haltOut' = HaltRecord(variant, p, now)
  /\ UNCHANGED <<variant, invokeVars, storeVars, errorIn, errorOut>>

HaltCall(p, now) ==
  /\ haltOut.kind = "none"
  /\ haltIn' = p
  /\ haltOut' = HaltRecord(variant, p, now)
  /\ UNCHANGED <<variant, invokeVars, storeVars, errorIn, errorOut>>

\* The scheduler has taken the acknowledgment of halt.
HaltSettled ==
  /\ haltOut.kind # "none"
  /\ haltIn' = NoHaltIn
  /\ haltOut' = NoHaltOut
  /\ UNCHANGED <<variant, invokeVars, storeVars, errorIn, errorOut>>

NextHalt ==
  \/ haltOut.kind = "none" /\ \E p \in HaltParams, now \in Times : HaltCall(p, now)
  \/ HaltSettled

HaltSpec == Init /\ [][NextHalt]_vars

(***************************************************************************)
(* Successive invocations against a remote store                           *)
(*                                                                         *)
(* The IAM service as a store of subjects: the DELETE of a subject it      *)
(* holds answers 2xx and removes it, the DELETE of a subject it does not   *)
(* hold answers 404.  The credential is valid: the token endpoint grants a *)
(* token, the authorization header resolves, no request fails in           *)
(* transport.                                                              *)
(***************************************************************************)
MaxCalls == 3

\* identifiers of the two subjects the jobs ask to delete
StoreIds == {Str(<<"p">>), Str(<<"p", "p">>)}

StoreParams ==
  {p \in InvokeParams : /\ p.workforce_pool_id = Str(<<"p">>)
                        /\ p.subject_id \in StoreIds
                        /\ p.project_id = Undefined
                        /\ p.address = Undefined}

\* the context of a job whose credential is valid for the deployed version
StoreContexts ==
  {c \in Contexts :
     /\ c.env.ADDRESS = Undefined
     /\ IF variant \in {"sa", "jwt"}
        THEN /\ c.secrets.defined
             /\ c.secrets.service_account_key = Key(TRUE, TRUE, TRUE, TRUE, ProjectInKey)
        ELSE c.secrets = NoContext.secrets}

\* the resource a DELETE for these parameters names
Resource(p) == DeleteUrl(DefaultBaseUrl, p.workforce_pool_id, p.subject_id)

GrantedTokens ==
  {r \in TokenResponses : r.status = 200 /\ r.body.json /\ Truthy(r.access_token)}

\* what the store answers to a DELETE of url
StoreResponses(url) ==
  IF url \in store
  THEN {[status |-> st, body |-> EmptyBody] : st \in {200, 204}}
  ELSE {[status |-> 404, body |-> JsonBody]}

StoreInit == Idle /\ store \in SUBSET {Resource(p) : p \in StoreParams}

\* The store answers the DELETE that is pending and no longer holds the subject.
StoreDelete(now) ==
  /\ pc = "Deleting"
  /\ LET url == http[Len(http)].url
     IN /\ \E resp \in StoreResponses(url) :
             SaDeleteResponse(resp, now) \/ CamelDeleteResponse(resp, now)
        /\ store' = store \ {url}
  /\ UNCHANGED <<history, parked>>

\* The scheduler takes the outcome of the invocation and keeps it.
StoreSettled ==
  /\ InvokeSettled
  /\ history' = Append(history,
       [params |-> params, pc |-> pc, returned |-> returned,
        status |-> answers[Len(answers)].status])
  /\ UNCHANGED <<store, parked>>

NextStore ==
  \/ /\ pc = "Start"
     /\ Len(history) < MaxCalls
     /\ \E p \in StoreParams, c \in StoreContexts : InvokeCall(p, c)
  \/ SaValidate
  \/ SaGetAccessToken
  \/ pc = "AwaitToken" /\ \E resp \in GrantedTokens : SaTokenResponse(resp)
  \/ CamelValidate
  \/ \E now \in Times : JwtRequest(now)
  \/ pc = "AwaitToken" /\ \E resp \in GrantedTokens, now \in Times : JwtTokenResponse(resp, now)
  \/ \E h \in AuthHeaders : UtilsAuthorizationHeader(h)
  \/ \E now \in Times : StoreDelete(now)
  \/ StoreSettled

StoreSpec == StoreInit /\ [][NextStore]_vars

(***************************************************************************)
(* halt while an invocation is in flight                                   *)
(*                                                                         *)
(* The scheduler may call halt at any point of an invocation, with the     *)
(* params of the job and a reason.  The jobs are well-formed (identifiers  *)
(* and credential are good); the token endpoint and the IAM service answer *)
(* anything.                                                               *)
(***************************************************************************)
HaltInFlight(reason, now) ==
  HaltCall([reason |-> reason, workforce_pool_id |-> params.workforce_pool_id,
            subject_id |-> params.subject_id], now)

NextInFlight ==
  \/ pc = "Start" /\ \E p \in StoreParams, c \in StoreContexts : InvokeCall(p, c)
  \/ InvokeSettled /\ UNCHANGED storeVars
  \/ SaValidate
  \/ SaGetAccessToken
  \/ pc = "AwaitToken" /\ \E resp \in TokenResponses : SaTokenResponse(resp)
  \/ SaTokenFetchFails
  \/ /\ pc = "Deleting"
     /\ \E resp \in DeleteResponses, now \in Times : SaDeleteResponse(resp, now)
     /\ UNCHANGED storeVars
  \/ SaDeleteFetchFails
  \/ CamelValidate
  \/ \E now \in Times : JwtRequest(now)
  \/ pc = "AwaitToken" /\ \E resp \in TokenResponses, now \in Times : JwtTokenResponse(resp, now)
  \/ \E now \in Times : JwtFetchFails(now)
  \/ \E h \in AuthHeaders : UtilsAuthorizationHeader(h)
  \/ UtilsAuthorizationFails
  \/ /\ pc = "Deleting"
     /\ \E resp \in DeleteResponses, now \in Times : CamelDeleteResponse(resp, now)
     /\ UNCHANGED storeVars
  \/ CamelDeleteFetchFails
  \/ haltOut.kind = "none" /\ \E reason \in Reasons, now \in Times : HaltInFlight(reason, now)
  \/ HaltSettled

InFlightSpec == Init /\ [][NextInFlight]_vars

(***************************************************************************)
(* Successive invocations of script.mjs                                    *)
(*                                                                         *)
(* Up to MaxCalls jobs, one after the other; the scheduler keeps the       *)
(* requests and answers of each.  A job has good or missing identifiers    *)
(* and a good, malformed or missing key; the token endpoint grants one of  *)
(* two tokens or refuses.                                                  *)
(***************************************************************************)
SeqParams ==
  {p \in InvokeParams : /\ p.workforce_pool_id = Str(<<"p">>)
                        /\ p.subject_id \in {Undefined, Str(<<"p">>)}
                        /\ p.project_id = Undefined
                        /\ p.address = Undefined}

SeqContexts ==
  {c \in Contexts :
     /\ c.env.ADDRESS = Undefined
     /\ c.secrets.defined
     /\ c.secrets.service_account_key \in
          {Key(FALSE, FALSE, FALSE, FALSE, Undefined),
           Key(TRUE, TRUE, TRUE, FALSE, ProjectInKey),
           Key(TRUE, TRUE, TRUE, TRUE, ProjectInKey)}}

SeqTokenResponses ==
  {r \in TokenResponses :
     \/ r.status = 200 /\ r.body.json /\ Truthy(r.access_token)
     \/ r.status = 401 /\ r.body = JsonBody}

SeqDeleteResponses == {[status |-> 200, body |-> EmptyBody]}

SeqInit == Init /\ variant = "sa"

\* The scheduler takes the outcome of the invocation and keeps its traffic.
SeqSettled ==
  /\ InvokeSettled
  /\ history' = Append(history,
       [params |-> params, context |-> context, http |-> http, answers |-> answers])
  /\ UNCHANGED <<store, parked>>

NextSeq ==
  \/ /\ pc = "Start"
     /\ Len(history) < MaxCalls
     /\ \E p \in SeqParams, c \in SeqContexts : InvokeCall(p, c)
  \/ SaValidate
  \/ SaGetAccessToken
  \/ pc = "AwaitToken" /\ \E resp \in SeqTokenResponses : SaTokenResponse(resp)
  \/ /\ pc = "Deleting"
     /\ \E resp \in SeqDeleteResponses : SaDeleteResponse(resp, 1)
     /\ UNCHANGED storeVars
  \/ SeqSettled

SeqSpec == SeqInit /\ [][NextSeq]_vars

(***************************************************************************)
(* Two invocations of script.mjs in flight at once                         *)
(*                                                                         *)
(* The runtime may start a second invoke while the first awaits.  The one  *)
(* that is running is held in the invocation variables, the other in       *)
(* `parked`; at any step the event loop may turn to the other one.  The    *)
(* two jobs name different (pool, subject) pairs.                          *)
(***************************************************************************)
PairParams ==
  {p \in InvokeParams : /\ p.workforce_pool_id \in StoreIds
                        /\ p.subject_id \in StoreIds
                        /\ p.project_id = Undefined
                        /\ p.address = Undefined}

PairContexts ==
  {c \in Contexts :
     /\ c.env.ADDRESS = Undefined
     /\ c.secrets.defined
     /\ c.secrets.service_account_key \in
          {Key(TRUE, TRUE, TRUE, FALSE, ProjectInKey),
           Key(TRUE, TRUE, TRUE, TRUE, ProjectInKey)}}

PairDeleteResponses ==
  {r \in DeleteResponses : r.status \in {200, 403, 404, 503} /\ r.body = EmptyBody}

\* the invocation that is running
Running ==
  [pc |-> pc, params |-> params, context |-> context, http |-> http,
   answers |-> answers, accessToken |-> accessToken, returned |-> returned,
   thrown |-> thrown, deleteOutcome |-> deleteOutcome]

\* The event loop turns from the running invocation to the other one.
Switch ==
  /\ parked' = Running
  /\ pc' = parked.pc
  /\ params' = parked.params
  /\ context' = parked.context
  /\ http' = parked.http
  /\ answers' = parked.answers
  /\ accessToken' = parked.accessToken
  /\ returned' = parked.returned
  /\ thrown' = parked.thrown
  /\ deleteOutcome' = parked.deleteOutcome
  /\ UNCHANGED <<variant, handlerVars, store, history>>

PairInit == Init /\ variant = "sa"

NextPair ==
  \/ /\ pc = "Start"
     /\ \E p \in PairParams, c \in PairContexts :
          /\ <<p.workforce_pool_id, p.subject_id>> #
               <<parked.params.workforce_pool_id, parked.params.subject_id>>
          /\ InvokeCall(p, c)
  \/ SaValidate
  \/ SaGetAccessToken
  \/ pc = "AwaitToken" /\ \E resp \in SeqTokenResponses : SaTokenResponse(resp)
  \/ SaTokenFetchFails
  \/ /\ pc = "Deleting"
     /\ \E resp \in PairDeleteResponses : SaDeleteResponse(resp, 1)
     /\ UNCHANGED storeVars
  \/ SaDeleteFetchFails
  \/ Switch

PairSpec == PairInit /\ [][NextPair]_vars

(***************************************************************************)
(* Progress of invoke of script.mjs                                        *)
(*                                                                         *)
(* The JavaScript engine runs every synchronous stretch of invoke to its   *)
(* next await, and every fetch that invoke awaits is settled by a response *)
(* or by a rejection: the steps of a started invocation are weakly fair.   *)
(* Nothing obliges the scheduler to call invoke or to take its outcome.    *)
(***************************************************************************)
LiveParams ==
  {p \in InvokeParams : /\ p.workforce_pool_id \in {Undefined, Str(<<"p">>)}
                        /\ p.subject_id \in {Undefined, Str(<<"p">>)}
                        /\ p.address = Undefined}

LiveContexts == {c \in Contexts : c.env.ADDRESS = Undefined}

LiveTokenResponses == {r \in TokenResponses : r.status \in {200, 401, 503}}

LiveInit == Init /\ variant = "sa"

\* a step of the invocation that is in flight
SaStep ==
  \/ SaValidate
  \/ SaGetAccessToken
  \/ pc = "AwaitToken" /\ \E resp \in LiveTokenResponses : SaTokenResponse(resp)
  \/ SaTokenFetchFails
  \/ /\ pc = "Deleting"
     /\ \E resp \in PairDeleteResponses : SaDeleteResponse(resp, 1)
     /\ UNCHANGED storeVars
  \/ SaDeleteFetchFails

NextLive ==
  \/ pc = "Start" /\ \E p \in LiveParams, c \in LiveContexts : InvokeCall(p, c)
  \/ InvokeSettled /\ UNCHANGED storeVars
  \/ SaStep

LiveSpec == LiveInit /\ [][NextLive]_vars /\ WF_vars(SaStep)

(***************************************************************************)
(* A job of script.mjs with its three handlers                             *)
(*                                                                         *)
(* The scheduler calls invoke with the params and the context of the job;  *)
(* when invoke has thrown it calls error with the params and the error; at *)
(* any time it may call halt with the params and a reason.                 *)
(***************************************************************************)
\* the params the scheduler gives to error: those of the job and the error
ErrorInput ==
  [error |-> [defined |-> TRUE, message |-> thrown.message,
              retryable |-> thrown.retryable, statusCode |-> thrown.statusCode],
   workforce_pool_id |-> params.workforce_pool_id,
   subject_id |-> params.subject_id]

ErrorAfterFailure ==
  /\ pc = "Failed"
  /\ ErrorCall(ErrorInput)

JobInit == Init /\ variant = "sa"

NextJob ==
  \/ pc = "Start" /\ \E p \in LiveParams, c \in LiveContexts : InvokeCall(p, c)
  \/ InvokeSettled /\ UNCHANGED storeVars
  \/ SaStep
  \/ ErrorAfterFailure
  \/ ErrorSettled
  \/ haltOut.kind = "none" /\ HaltInFlight(Str(<<"timeout">>), 1)
  \/ HaltSettled

JobSpec == JobInit /\ [][NextJob]_vars

(***************************************************************************)
(* Vocabulary of the properties                                            *)
(***************************************************************************)
\* an identifier that is missing, empty or not a string
MissingEmptyOrNotString(v) == v.t # "string" \/ v.s = <<>>

\* an identifier that is a string with a character other than white space
ProperIdentifier(v) ==
  v.t = "string" /\ \E i \in 1..Len(v.s) : v.s[i] # " "

Finished == pc \in {"Succeeded", "Failed"}
PastValidation == pc \notin {"Start", "Validating"}

DeleteRequests == {i \in 1..Len(http) : http[i].method = "DELETE"}
TokenRequests == {i \in 1..Len(http) : http[i].method = "POST"}

\* the DELETE has been sent and answered with the status st
DeleteAnsweredWith(st) ==
  \E i \in DeleteRequests : i <= Len(answers) /\ answers[i].status = st

\* the token POST has been sent and answered with the status st
TokenAnsweredWith(st) ==
  \E i \in TokenRequests : i <= Len(answers) /\ answers[i].status = st

(***************************************************************************)
(* C1: in script.mjs, whenever workforce_pool_id or subject_id is missing, *)
(* empty or not a string, invoke ends by throwing a FatalError             *)
(* (retryable = false) and has issued no HTTP request at all.              *)
(***************************************************************************)
C1_InvalidIdentifierFailsFatalWithoutHttp ==
  ( /\ variant = "sa"
    /\ PastValidation
    /\ \/ MissingEmptyOrNotString(params.workforce_pool_id)
       \/ MissingEmptyOrNotString(params.subject_id) )
  => /\ pc = "Failed"
     /\ thrown.class = "FatalError"
     /\ thrown.retryable = Bool(FALSE)
     /\ returned = NoResult
     /\ http = <<>>
     /\ answers = <<>>

\* C1 happens: a good pool id with a bad subject id has been rejected.
C1_Witness ==
  /\ variant = "sa"
  /\ pc = "Failed"
  /\ ProperIdentifier(params.workforce_pool_id)
  /\ MissingEmptyOrNotString(params.subject_id)
  /\ thrown.message = <<"Missing or invalid required parameter: ", "subject_id">>

\* script.mjs and part_001, the two versions most properties are drawn from
Cited == variant \in {"sa", "utils"}

\* the identifiers of the result are those of the call
EchoesIdentifiers ==
  /\ returned.workforce_pool_id = params.workforce_pool_id
  /\ returned.subject_id = params.subject_id

(***************************************************************************)
(* C2 as stated: after a 2xx answer to the DELETE, invoke returns a result *)
(* with status = "success" and deleted = true, alreadyDeleted unset, and   *)
(* the identifiers of the call.                                            *)
(***************************************************************************)
C2_SuccessHasStatusAndDeleted ==
  (Cited /\ \E st \in 200..299 : DeleteAnsweredWith(st))
  => /\ pc = "Succeeded"
     /\ returned.status = Str(<<"success">>)
     /\ returned.deleted = Bool(TRUE)
     /\ returned.alreadyDeleted = Undefined
     /\ EchoesIdentifiers

(***************************************************************************)
(* C2 amended: after a 2xx answer to the DELETE, invoke returns a result   *)
(* with alreadyDeleted unset and the identifiers of the call; the result   *)
(* of script.mjs has status = "success" and no deleted member, the result  *)
(* of the other versions has deleted = true and no status member.          *)
(***************************************************************************)
C2_SuccessShapePerVersion ==
  (\E st \in 200..299 : DeleteAnsweredWith(st))
  => /\ pc = "Succeeded"
     /\ thrown = NoError
     /\ returned.alreadyDeleted = Undefined
     /\ EchoesIdentifiers
     /\ variant = "sa" =>
          returned.status = Str(<<"success">>) /\ returned.deleted = Undefined
     /\ variant # "sa" =>
          returned.deleted = Bool(TRUE) /\ returned.status = Undefined

\* C2 happens: script.mjs has returned after a 204 for two different identifiers.
C2_Witness ==
  /\ variant = "sa"
  /\ pc = "Succeeded"
  /\ DeleteAnsweredWith(204)
  /\ ProperIdentifier(params.workforce_pool_id)
  /\ params.subject_id # params.workforce_pool_id
  /\ returned.subject_id = params.subject_id

(***************************************************************************)
(* C3: after a 404 answer to the DELETE, invoke does not fail; it returns  *)
(* the success result with the identifiers of the call and the marker      *)
(* alreadyDeleted = true.                                                  *)
(***************************************************************************)
C3_NotFoundIsMarkedAlreadyDeleted ==
  (Cited /\ DeleteAnsweredWith(404))
  => /\ pc = "Succeeded"
     /\ EchoesIdentifiers
     /\ returned.alreadyDeleted = Bool(TRUE)

(***************************************************************************)
(* C4 as stated: the error invoke raises after a DELETE answered 429, 502, *)
(* 503 or 504 has retryable = true; after 400, 401 or 403 it has           *)
(* retryable = false.                                                      *)
(***************************************************************************)
C4_RaisedErrorCarriesRetryable ==
  /\ \A st \in {429, 502, 503, 504} :
       (Cited /\ DeleteAnsweredWith(st))
       => pc = "Failed" /\ thrown.retryable = Bool(TRUE)
  /\ \A st \in {400, 401, 403} :
       (Cited /\ DeleteAnsweredWith(st))
       => pc = "Failed" /\ thrown.retryable = Bool(FALSE)

(***************************************************************************)
(* C4 amended: in script.mjs the error raised after 429, 502, 503 or 504   *)
(* has retryable = true and after 400, 401 or 403 retryable = false; in    *)
(* the other versions the error raised for these statuses is a plain Error *)
(* with statusCode equal to the status and no retryable member.            *)
(***************************************************************************)
C4_ClassificationPerVersion ==
  /\ \A st \in {429, 502, 503, 504} :
       (variant = "sa" /\ DeleteAnsweredWith(st))
       => pc = "Failed" /\ thrown.class = "RetryableError"
          /\ thrown.retryable = Bool(TRUE)
  /\ \A st \in {400, 401, 403} :
       (variant = "sa" /\ DeleteAnsweredWith(st))
       => pc = "Failed" /\ thrown.class = "FatalError"
          /\ thrown.retryable = Bool(FALSE)
  /\ \A st \in {429, 502, 503, 504, 400, 401, 403} :
       (variant # "sa" /\ DeleteAnsweredWith(st))
       => pc = "Failed" /\ thrown.class = "Error"
          /\ thrown.retryable = Undefined /\ thrown.statusCode = Num(st)

\* C4 happens: script.mjs has raised a retryable error after a 429.
C4_Witness ==
  /\ variant = "sa"
  /\ pc = "Failed"
  /\ DeleteAnsweredWith(429)
  /\ thrown.retryable = Bool(TRUE)

\* statuses that are not 2xx, not 404 and none of 429, 502, 503, 504
OtherStatuses == {st \in DeleteStatuses : st \notin 200..299 /\ st # 404
                                          /\ st \notin {429, 502, 503, 504}}

(***************************************************************************)
(* C5 as stated: in script.mjs every DELETE status that is not 2xx, not    *)
(* 404 and not 429, 502, 503 or 504 makes invoke fail with a Fatal error   *)
(* (retryable = false).                                                    *)
(***************************************************************************)
C5_OtherStatusesAreFatal ==
  \A st \in OtherStatuses :
    (variant = "sa" /\ DeleteAnsweredWith(st))
    => pc = "Failed" /\ thrown.retryable = Bool(FALSE)

(***************************************************************************)
(* C5 amended: in script.mjs every DELETE status below 500 that is not     *)
(* 2xx, not 404 and not 429 (409, 3xx, 400, ...) makes invoke fail with a  *)
(* Fatal error; every status of 500 or above (500 and 501 included) makes  *)
(* it fail with a Retryable error.                                         *)
(***************************************************************************)
C5_FatalBelow500RetryableFrom500 ==
  \A st \in OtherStatuses :
    (variant = "sa" /\ DeleteAnsweredWith(st))
    => /\ pc = "Failed"
       /\ st < 500 => thrown.class = "FatalError" /\ thrown.retryable = Bool(FALSE)
       /\ st >= 500 => thrown.class = "RetryableError" /\ thrown.retryable = Bool(TRUE)

\* C5 happens: script.mjs has failed fatally on a 409 and on a redirect.
C5_Witness ==
  /\ variant = "sa"
  /\ pc = "Failed"
  /\ DeleteAnsweredWith(409) \/ DeleteAnsweredWith(301)
  /\ thrown.class = "FatalError"

\* the service-account secret is missing: no secrets object, no such member,
\* or an empty value
SecretMissing ==
  \/ ~context.secrets.defined
  \/ ~context.secrets.service_account_key.present
  \/ ~context.secrets.service_account_key.nonempty

(***************************************************************************)
(* C6: in the versions that require a service-account key (script.mjs and  *)
(* the JWT-client version), valid identifiers with the secret missing make *)
(* invoke fail with an error that names the secret and is not retryable    *)
(* (a FatalError with retryable = false in script.mjs), and neither the    *)
(* token exchange nor the DELETE has been issued.                          *)
(***************************************************************************)
C6_MissingSecretFailsBeforeAnyRequest ==
  ( /\ variant \in {"sa", "jwt"}
    /\ PastValidation
    /\ ProperIdentifier(params.workforce_pool_id)
    /\ ProperIdentifier(params.subject_id)
    /\ SecretMissing )
  => /\ pc = "Failed"
     /\ returned = NoResult
     /\ thrown.retryable # Bool(TRUE)
     /\ variant = "sa" =>
          /\ thrown.class = "FatalError"
          /\ thrown.retryable = Bool(FALSE)
          /\ thrown.message = <<"Missing required secret: ", "service_account_key">>
     /\ variant = "jwt" =>
          thrown.message = <<"Missing required secret: ", "GOOGLE_SERVICE_ACCOUNT_KEY">>
     /\ http = <<>>

\* C6 happens: script.mjs has rejected a context whose secrets lack the key.
C6_Witness ==
  /\ variant = "sa"
  /\ pc = "Failed"
  /\ ProperIdentifier(params.workforce_pool_id)
  /\ ProperIdentifier(params.subject_id)
  /\ context.secrets.defined
  /\ ~context.secrets.service_account_key.present
  /\ thrown.message = <<"Missing required secret: ", "service_account_key">>

(***************************************************************************)
(* C7 as stated: every invocation of script.mjs invoke issues exactly one  *)
(* DELETE request.                                                         *)
(***************************************************************************)
C7_EveryInvocationIssuesOneDelete ==
  (variant = "sa" /\ Finished) => Cardinality(DeleteRequests) = 1

(***************************************************************************)
(* C7 amended: every invocation issues at most one DELETE request, and     *)
(* script.mjs has issued exactly one once validation, the secret check,    *)
(* the token exchange and the project-id resolution have succeeded (none   *)
(* before); an answer to the DELETE, retryable or not, ends the invocation *)
(* with no request pending, so it is never sent again.                     *)
(***************************************************************************)
C7_AtMostOneDeleteNeverResent ==
  /\ Cardinality(DeleteRequests) <= 1
  /\ variant = "sa" =>
       (Cardinality(DeleteRequests) = 1 <=> pc = "Deleting" \/ pc = "Succeeded"
                                             \/ (pc = "Failed" /\ Len(answers) = 2))
  /\ (\E i \in DeleteRequests : i <= Len(answers))
       => Finished /\ Len(answers) = Len(http)

\* C7 happens: script.mjs has failed on a 503 having sent the DELETE once.
C7_Witness ==
  /\ variant = "sa"
  /\ pc = "Failed"
  /\ DeleteAnsweredWith(503)
  /\ thrown.retryable = Bool(TRUE)
  /\ Cardinality(DeleteRequests) = 1

(***************************************************************************)
(* C8: in script.mjs a token endpoint answer with a status that is not     *)
(* 2xx (429 and 5xx included) makes invoke fail with a FatalError          *)
(* (retryable = false); the token request has been sent once and no DELETE *)
(* request has been issued.                                                *)
(***************************************************************************)
C8_FailedTokenExchangeIsFatal ==
  \A st \in TokenStatuses \ (200..299) :
    (variant = "sa" /\ TokenAnsweredWith(st))
    => /\ pc = "Failed"
       /\ thrown.class = "FatalError"
       /\ thrown.retryable = Bool(FALSE)
       /\ Cardinality(TokenRequests) = 1
       /\ DeleteRequests = {}

\* C8 happens: script.mjs has failed on a throttled token endpoint.
C8_Witness ==
  /\ variant = "sa"
  /\ pc = "Failed"
  /\ TokenAnsweredWith(429)
  /\ Len(http) = 1

(***************************************************************************)
(* C9: the error handler of script.mjs, given an error { message,          *)
(* retryable } with a boolean retryable, returns a record with status =    *)
(* "failed", error = the message, the identifiers given, and retryable =   *)
(* the flag given; it issues no HTTP request.                              *)
(***************************************************************************)
C9_ErrorHandlerPassesClassificationThrough ==
  ( /\ variant = "sa"
    /\ errorOut.kind # "none"
    /\ errorIn.error.defined
    /\ errorIn.error.retryable.t = "boolean" )
  => /\ errorOut.kind = "returned"
     /\ errorOut.status = Str(<<"failed">>)
     /\ errorOut.error = errorIn.error.message
     /\ errorOut.workforce_pool_id = errorIn.workforce_pool_id
     /\ errorOut.subject_id = errorIn.subject_id
     /\ errorOut.retryable = errorIn.error.retryable
     /\ http = <<>>

\* C9 happens: a fatal error has been reported as not retryable.
C9_Witness ==
  /\ variant = "sa"
  /\ errorOut.kind = "returned"
  /\ errorIn.error.defined
  /\ errorIn.error.retryable = Bool(FALSE)
  /\ errorOut.retryable = Bool(FALSE)
  /\ errorOut.error = <<"Invalid credentials">>

(***************************************************************************)
(* C10: halt returns (it never throws) and, for each of the two            *)
(* identifiers absent from its params, the field of the record it returns  *)
(* is "unknown".                                                           *)
(***************************************************************************)
C10_HaltReturnsUnknownForAbsentIdentifier ==
  haltOut.kind # "none"
  => /\ haltOut.kind = "returned"
     /\ haltIn.workforce_pool_id = Undefined => haltOut.workforce_pool_id = Unknown
     /\ haltIn.subject_id = Undefined => haltOut.subject_id = Unknown

\* C10 happens: halt has answered params that hold only a reason.
C10_Witness ==
  /\ haltOut.kind = "returned"
  /\ haltIn.workforce_pool_id = Undefined
  /\ haltIn.subject_id = Undefined
  /\ haltIn.reason = Str(<<"system_shutdown">>)
  /\ haltOut.workforce_pool_id = Unknown
  /\ haltOut.subject_id = Unknown

\* an identifier given to halt that is neither null nor undefined
Supplied(v) == v.t \notin {"undefined", "null"}

(***************************************************************************)
(* C11 as stated: halt returns a record with status = "halted", the        *)
(* reason given and, for each identifier, the value given whenever it is   *)
(* not null or undefined (an empty string included), "unknown" otherwise.  *)
(***************************************************************************)
C11_HaltEchoesEverySuppliedIdentifier ==
  (Cited /\ haltOut.kind # "none")
  => /\ haltOut.status = Str(<<"halted">>)
     /\ haltOut.reason = haltIn.reason
     /\ haltOut.workforce_pool_id =
          (IF Supplied(haltIn.workforce_pool_id) THEN haltIn.workforce_pool_id
           ELSE Str(<<"unknown">>))
     /\ haltOut.subject_id =
          (IF Supplied(haltIn.subject_id) THEN haltIn.subject_id
           ELSE Str(<<"unknown">>))

(***************************************************************************)
(* C11 amended: halt returns a record with the reason given and, for each  *)
(* identifier, the value given whenever that value is truthy; an absent,   *)
(* null, empty-string or zero identifier becomes "unknown". The record of  *)
(* script.mjs has status = "halted"; the record of the other versions has  *)
(* cleanupCompleted = true and no status.                                  *)
(***************************************************************************)
C11_HaltEchoesTruthyIdentifiers ==
  haltOut.kind # "none"
  => /\ haltOut.kind = "returned"
     /\ haltOut.reason = haltIn.reason
     /\ \A f \in {"workforce_pool_id", "subject_id"} :
          LET given == haltIn[f]
              falsy == \/ given.t \in {"undefined", "null"}
                       \/ (given.t = "string" /\ given.s = <<>>)
                       \/ (given.t = "number" /\ given.n = 0)
          IN haltOut[f] = (IF falsy THEN Str(<<"unknown">>) ELSE given)
     /\ variant = "sa" =>
          haltOut.status = Str(<<"halted">>) /\ haltOut.cleanupCompleted = Undefined
     /\ variant # "sa" =>
          haltOut.status = Undefined /\ haltOut.cleanupCompleted = Bool(TRUE)

\* C11 happens: script.mjs halt was given an empty subject id beside a good
\* pool id and a reason.
C11_Witness ==
  /\ variant = "sa"
  /\ haltOut.kind = "returned"
  /\ ProperIdentifier(haltIn.workforce_pool_id)
  /\ haltOut.workforce_pool_id = haltIn.workforce_pool_id
  /\ haltIn.subject_id = Str(<<>>)
  /\ haltOut.subject_id = Str(<<"unknown">>)
  /\ haltIn.reason = Str(<<"timeout">>)
  /\ haltOut.status = Str(<<"halted">>)

\* the text `piece` occurs in the message
Includes(message, piece) == \E i \in 1..Len(message) : message[i] = piece

\* the DELETE of this invocation was answered with status st and body b
DeleteAnsweredWithBody(st, b) ==
  \E i \in DeleteRequests :
    i <= Len(answers) /\ answers[i].status = st /\ answers[i].body = b

(***************************************************************************)
(* C12: whenever invoke fails because the DELETE was answered with a       *)
(* status outside 2xx other than 404, the message of the raised error      *)
(* includes that status code and, when the response body is a JSON error   *)
(* payload with a message, that upstream message too.                      *)
(* script.mjs keeps it (the whole body text follows the status);           *)
(* part_001 loses the upstream message.                                    *)
(***************************************************************************)
C12_FailureMessageHasStatusAndUpstreamMessage ==
  \A st \in DeleteStatuses \ ({404} \cup 200..299), b \in Bodies :
    (Cited /\ pc = "Failed" /\ DeleteAnsweredWithBody(st, b))
    => /\ Includes(thrown.message, ToString(st))
       /\ (b.json /\ b.message.t = "string")
            => \A i \in 1..Len(b.message.s) : Includes(thrown.message, b.message.s[i])

(***************************************************************************)
(* C13: every DELETE issued by invoke targets                              *)
(* {baseUrl}/v1/locations/global/workforcePools/{poolId}/subjects/         *)
(* {subjectId} with the validated identifiers, where baseUrl is the        *)
(* address of the parameters when there is one, else the ADDRESS of the    *)
(* environment when there is one, else https://iam.googleapis.com.         *)
(* part_001 does so; script.mjs sends every DELETE to the canonical host.  *)
(***************************************************************************)
C13_DeleteTargetsSuppliedAddress ==
  Cited =>
    \A i \in DeleteRequests :
      LET baseUrl == IF params.address.t = "string" THEN params.address.s
                     ELSE IF context.env.ADDRESS.t = "string" THEN context.env.ADDRESS.s
                     ELSE <<"https://iam.googleapis.com">>
      IN http[i].url = baseUrl \o <<"/v1/locations/global/workforcePools/">>
                               \o params.workforce_pool_id.s
                               \o <<"/subjects/">> \o params.subject_id.s

\* a string made of white space only, such as "   "
WhitespaceOnly(v) ==
  v.t = "string" /\ v.s # <<>> /\ \A i \in 1..Len(v.s) : v.s[i] = " "

(***************************************************************************)
(* C15: in every version, an identifier that is a string of white space    *)
(* only or that is not a string is rejected by the validation of invoke,   *)
(* before any HTTP request is issued.                                      *)
(* script.mjs trims before it tests; part_001 and both scripts of part_000 *)
(* do not, and go on with an identifier of white space.                    *)
(***************************************************************************)
C15_WhitespaceOrNonStringIdentifierRejected ==
  (/\ PastValidation
   /\ \E id \in {params.workforce_pool_id, params.subject_id} :
        WhitespaceOnly(id) \/ id.t # "string")
  => pc = "Failed" /\ http = <<>>

(***************************************************************************)
(* C17: invoke returns a success result only if a DELETE for the given     *)
(* identifiers was issued and that DELETE was answered with a 2xx or a     *)
(* 404; a failure or a 404 of the token exchange is never reported as a    *)
(* deletion. Stated for the two versions that acquire the credential       *)
(* themselves: script.mjs keeps it, the JWT script of part_000 reports a   *)
(* 404 of the token exchange as alreadyDeleted.                            *)
(***************************************************************************)
C17_SuccessOnlyAfterDeleteAnswered ==
  (variant \in {"sa", "jwt"} /\ pc = "Succeeded")
  => \E i \in DeleteRequests :
       /\ http[i].url = <<"https://iam.googleapis.com">>
                        \o <<"/v1/locations/global/workforcePools/">>
                        \o params.workforce_pool_id.s
                        \o <<"/subjects/">> \o params.subject_id.s
       /\ i <= Len(answers)
       /\ answers[i].status \in (200..299) \cup {404}

\* the DELETE of this invocation failed below HTTP (connection, DNS)
DeleteTransportFailed == DeleteAnsweredWith(0)

(***************************************************************************)
(* C18 as stated: no error leaves invoke without a boolean retryable       *)
(* classification, and a network-level failure of the DELETE leaves it as  *)
(* a Fatal error with retryable = false.                                   *)
(***************************************************************************)
C18_EveryEscapingErrorIsClassified ==
  (Cited /\ pc = "Failed")
  => /\ thrown.retryable \in {Bool(TRUE), Bool(FALSE)}
     /\ DeleteTransportFailed
          => thrown.class = "FatalError" /\ thrown.retryable = Bool(FALSE)

(***************************************************************************)
(* C18 amended: in script.mjs every error that escapes invoke is a         *)
(* RetryableError (retryable = true) or a FatalError (retryable = false);  *)
(* the error raised for a DELETE status leaves with the class and message  *)
(* it was raised with, and a network-level failure of the DELETE leaves as *)
(* FatalError("Unexpected error: ...").  In the other versions no error    *)
(* that escapes invoke has a retryable member: a plain Error, or the       *)
(* exception of the runtime as it was thrown (the JWT script of part_000   *)
(* catches the failure of its request and throws a plain Error for it).    *)
(***************************************************************************)
C18_ClassifiedOnceInScriptOnly ==
  pc = "Failed"
  => /\ variant = "sa" =>
          /\ \/ thrown.class = "RetryableError" /\ thrown.retryable = Bool(TRUE)
             \/ thrown.class = "FatalError" /\ thrown.retryable = Bool(FALSE)
          /\ DeleteTransportFailed
               => /\ thrown.class = "FatalError"
                  /\ thrown.message = <<"Unexpected error: ", "fetch failed">>
          /\ \A i \in DeleteRequests :
               (i <= Len(answers) /\ answers[i].status # 0)
               => /\ thrown.class = (IF answers[i].status = 429 \/ answers[i].status >= 500
                                     THEN "RetryableError" ELSE "FatalError")
                  /\ thrown.message[1] \in {"Google Cloud API error (",
                                            "Failed to delete workforce user ("}
                  /\ thrown.message[2] = ToString(answers[i].status)
     /\ variant # "sa" =>
          /\ thrown.retryable = Undefined
          /\ thrown.class \in {"Error", "TypeError", "SyntaxError"}
          /\ DeleteTransportFailed
               => thrown.class = (IF variant = "jwt" THEN "Error" ELSE "TypeError")

\* C18 happens: the DELETE of script.mjs failed below HTTP and invoke has
\* thrown a FatalError for it.
C18_Witness ==
  /\ variant = "sa"
  /\ pc = "Failed"
  /\ DeleteTransportFailed
  /\ thrown.class = "FatalError"
  /\ thrown.retryable = Bool(FALSE)

(***************************************************************************)
(* C19 as stated: in every version, every DELETE request carries an        *)
(* Authorization header; none is sent without an authorization value.      *)
(***************************************************************************)
C19_EveryDeleteCarriesAuthorization ==
  \A i \in DeleteRequests :
    http[i].authorization.t = "string" /\ http[i].authorization.s # <<>>

(***************************************************************************)
(* C19 amended: every DELETE request of script.mjs, of part_001 and of the *)
(* JWT script of part_000 carries an Authorization header holding the      *)
(* credential acquired for this invocation ("Bearer " and the access token *)
(* in script.mjs and the JWT script, the value of getAuthorizationHeader   *)
(* in part_001); the first script of part_000 sends its DELETE without an  *)
(* Authorization header.                                                   *)
(***************************************************************************)
C19_AuthorizationExceptExternalAuth ==
  \A i \in DeleteRequests :
    /\ variant \in {"sa", "jwt"} =>
         http[i].authorization = Str(<<"Bearer ">> \o ToText(accessToken))
    /\ variant = "utils" =>
         /\ http[i].authorization = accessToken
         /\ accessToken.t = "string" /\ accessToken.s # <<>>
    /\ variant = "ext" => http[i].authorization = Undefined

\* C19 happens: script.mjs has sent its DELETE with the bearer token t1.
C19_Witness ==
  /\ variant = "sa"
  /\ accessToken = Str(<<"t1">>)
  /\ \E i \in DeleteRequests : http[i].authorization = Str(<<"Bearer ", "t1">>)

(***************************************************************************)
(* C16: within one invoke of script.mjs the token exchange strictly        *)
(* precedes the DELETE: the DELETE is issued only after the token exchange *)
(* was answered with a 2xx, at most one request is awaiting its answer at  *)
(* any time, and the bearer value of the DELETE is the access token that   *)
(* exchange returned.                                                      *)
(***************************************************************************)
C16_TokenExchangePrecedesDelete ==
  variant = "sa"
  => /\ Len(answers) <= Len(http) /\ Len(http) <= Len(answers) + 1
     /\ \A i \in DeleteRequests :
          /\ i > 1
          /\ http[i - 1].method = "POST"
          /\ http[i - 1].url = <<"https://oauth2.googleapis.com/token">>
          /\ answers[i - 1].status \in 200..299
          /\ http[i].authorization =
               Str(<<"Bearer ">> \o ToText(answers[i - 1].access_token))

\* C16 happens: script.mjs sent its DELETE with the token t2 that the token
\* endpoint had returned, and the DELETE has been answered.
C16_Witness ==
  /\ variant = "sa"
  /\ Len(http) = 2 /\ Len(answers) = 2
  /\ http[1].method = "POST" /\ http[2].method = "DELETE"
  /\ answers[1].status = 200
  /\ answers[1].access_token = Str(<<"t2">>)
  /\ http[2].authorization = Str(<<"Bearer ", "t2">>)

(***************************************************************************)
(* C20 as stated: deleteWorkforceUser never raises on an HTTP status: for  *)
(* every status of the response it returns an outcome carrying that        *)
(* status, and a body that is empty or not JSON gives a null body in the   *)
(* outcome.                                                                *)
(***************************************************************************)
C20_DeleteOperationNeverRaisesOnStatus ==
  \A st \in DeleteStatuses, b \in Bodies :
    (Cited /\ DeleteAnsweredWithBody(st, b))
    => /\ deleteOutcome.kind = "returned"
       /\ deleteOutcome.result.status = Num(st)
       /\ (b.text = <<>> \/ ~b.json) => deleteOutcome.result.data = Null

(***************************************************************************)
(* C20 amended: deleteWorkforceUser of part_001 and of the first script of *)
(* part_000 never raises on an HTTP status: for every status it returns    *)
(* { success, status, data } with that status, success exactly for 2xx,    *)
(* and data null for a body that is empty or not JSON.  deleteWorkforceUser*)
(* of script.mjs returns nothing for a 2xx or a 404 and raises for every   *)
(* other status: RetryableError for 429 and 5xx, FatalError otherwise,     *)
(* with the status in the message.                                         *)
(***************************************************************************)
C20_NormalizedOutcomeExceptScript ==
  \A i \in DeleteRequests :
    (i <= Len(answers) /\ answers[i].status # 0)
    => LET st == answers[i].status
           b == answers[i].body
       IN
       /\ variant \in {"ext", "utils"} =>
            /\ deleteOutcome.kind = "returned"
            /\ deleteOutcome.result.status = Num(st)
            /\ deleteOutcome.result.success = (st \in 200..299)
            /\ (b.text = <<>> \/ ~b.json) => deleteOutcome.result.data = Null
            /\ (b.text # <<>> /\ b.json) => deleteOutcome.result.data = b.message
       /\ variant = "sa" =>
            IF st \in 200..299 \/ st = 404
            THEN deleteOutcome.kind = "void"
            ELSE /\ deleteOutcome.kind = "thrown"
                 /\ deleteOutcome.thrown.class =
                      (IF st = 429 \/ st >= 500 THEN "RetryableError" ELSE "FatalError")
                 /\ Includes(deleteOutcome.thrown.message, ToString(st))

\* C20 happens: deleteWorkforceUser of part_001 returned the outcome of a 503
\* whose body is not JSON.
C20_Witness ==
  /\ variant = "utils"
  /\ DeleteAnsweredWithBody(503, TextBody)
  /\ deleteOutcome.kind = "returned"
  /\ deleteOutcome.result.status = Num(503)
  /\ deleteOutcome.result.data = Null

\* two results of invoke that differ at most in the timestamp
SameButTimestamp(r1, r2) == [r1 EXCEPT !.at = 0] = [r2 EXCEPT !.at = 0]

\* the k-th invocation was made when its subject was already deleted: an
\* earlier invocation deleted it, or the store never held it (it answered 404)
AlreadyDeletedAt(k) ==
  \/ \E j \in 1..(k - 1) : history[j].params = history[k].params
  \/ history[k].status = 404

(***************************************************************************)
(* C14: against a remote store where the DELETE of a present subject       *)
(* answers 2xx and removes it and the DELETE of an absent subject answers  *)
(* 404, every one of any number of successive invocations with a valid     *)
(* credential returns success, and two invocations for the same            *)
(* identifiers made once the subject is already deleted return results     *)
(* that are equal in every field except the timestamp.                     *)
(***************************************************************************)
C14_SuccessiveDeletesSucceedAlike ==
  /\ Finished => pc = "Succeeded"
  /\ \A k \in 1..Len(history) : history[k].pc = "Succeeded"
  /\ \A j, k \in 1..Len(history) :
       (/\ history[j].params = history[k].params
        /\ AlreadyDeletedAt(j) /\ AlreadyDeletedAt(k))
       => SameButTimestamp(history[j].returned, history[k].returned)

\* C14 happens: script.mjs was invoked three times for a subject the store
\* held; the first DELETE removed it, the two others found it gone, at
\* different times.
C14_Witness ==
  /\ variant = "sa"
  /\ Len(history) = 3
  /\ history[1].params = history[2].params
  /\ history[2].params = history[3].params
  /\ history[1].status \in 200..299
  /\ history[2].status = 404
  /\ history[3].status = 404
  /\ history[2].returned.at # history[3].returned.at
  /\ history[3].returned.status = Str(<<"success">>)

\* the token endpoint granted a token: answered 2xx with a JSON body
TokenGranted ==
  \E i \in TokenRequests :
    i <= Len(answers) /\ answers[i].status \in 200..299 /\ answers[i].body.json

\* nothing usable as a project id: absent, null or the empty string
NoProjectId(v) == v.t \in {"undefined", "null"} \/ (v.t = "string" /\ v.s = <<>>)

(***************************************************************************)
(* C21: in script.mjs, when the project_id parameter is absent invoke      *)
(* takes the project id from the project_id of the service-account key     *)
(* (and goes on to the DELETE); when neither the parameter nor the key     *)
(* has one, invoke fails with a Fatal error and no DELETE is issued.       *)
(***************************************************************************)
C21_ProjectIdFromKeyElseFatal ==
  (variant = "sa" /\ TokenGranted)
  => LET key == context.secrets.service_account_key
     IN /\ (NoProjectId(params.project_id) /\ NoProjectId(key.project_id))
             => /\ pc = "Failed"
                /\ thrown.class = "FatalError" /\ thrown.retryable = Bool(FALSE)
                /\ thrown.message =
                     <<"Project ID not found in service account key and not provided in parameters">>
                /\ DeleteRequests = {}
        /\ (NoProjectId(params.project_id) /\ ~NoProjectId(key.project_id))
             => /\ DeleteRequests # {}
                /\ thrown.message #
                     <<"Project ID not found in service account key and not provided in parameters">>

\* C21 happens: the key of this invocation has a project id and the parameters
\* have none, and the DELETE has been sent.
C21_Witness ==
  /\ variant = "sa"
  /\ TokenGranted
  /\ params.project_id = Undefined
  /\ context.secrets.service_account_key.project_id = Str(<<"test-project-123">>)
  /\ DeleteRequests # {}

\* the key material of the secret cannot be used: it does not decode to
\* JSON, or its private key does not sign
MalformedKey(key) == ~key.json \/ ~key.signable

C23_ErrorHandlerRethrowsWhatItReceived ==
  (variant # "sa" /\ errorOut.kind # "none")
  => /\ errorOut.kind = "thrown"
     /\ errorIn.error.defined
          => /\ errorOut.thrown.message = errorIn.error.message
             /\ errorOut.thrown.statusCode = errorIn.error.statusCode
             /\ errorOut.thrown.retryable = errorIn.error.retryable
     /\ http = <<>>

\* C23 happens: the handler of part_001 was given the error of a 429 and has
\* thrown it.
C23_Witness ==
  /\ variant = "utils"
  /\ errorOut.kind = "thrown"
  /\ errorIn.error.defined
  /\ errorIn.error.statusCode = Num(429)
  /\ errorIn.error.message = <<"Rate limit exceeded">>
  /\ errorOut.thrown.statusCode = Num(429)
  /\ errorOut.thrown.message = <<"Rate limit exceeded">>

\* what the invocation can do next when nobody calls halt
InvokeCanGoOn ==
  /\ (variant = "sa" /\ pc = "AwaitToken")
       => \A resp \in TokenResponses : ENABLED SaTokenResponse(resp)
  /\ (variant = "sa" /\ pc = "Deleting")
       => \A resp \in DeleteResponses :
            ENABLED (SaDeleteResponse(resp, 1) /\ UNCHANGED storeVars)

(***************************************************************************)
(* C24: halt never contacts the network and does not interrupt a request.  *)
(* Whenever the scheduler calls halt during an invocation (before, between *)
(* or during its token exchange and DELETE), halt returns its              *)
(* acknowledgment and leaves the invocation as it is: every step is a step *)
(* of the lifecycle without halt or does not touch the invocation (so no   *)
(* request is issued by halt), and after halt has returned every answer    *)
(* to the pending request is taken by invoke as before.                    *)
(***************************************************************************)
C24_HaltDoesNotInterruptInvoke ==
  [][ /\ Next \/ UNCHANGED <<variant, invokeVars>>
      /\ haltOut'.kind \in {"none", "returned"}
      /\ haltOut.kind = "returned" => InvokeCanGoOn ]_vars

\* C24 happens: halt has returned its acknowledgment while the DELETE of
\* script.mjs is awaiting its answer.
C24_Witness ==
  /\ variant = "sa"
  /\ pc = "Deleting"
  /\ Len(http) = 2 /\ Len(answers) = 1
  /\ haltOut.kind = "returned"
  /\ haltOut.status = Str(<<"halted">>)
  /\ haltIn.subject_id = params.subject_id

\* the k-th invocation passed validation and the secret check
PassedChecks(k) ==
  /\ ProperIdentifier(history[k].params.workforce_pool_id)
  /\ ProperIdentifier(history[k].params.subject_id)
  /\ history[k].context.secrets.defined
  /\ history[k].context.secrets.service_account_key.present
  /\ history[k].context.secrets.service_account_key.nonempty

\* the token exchanges and the DELETEs of the k-th invocation
TokenExchangesOf(k) ==
  {i \in 1..Len(history[k].http) :
     /\ history[k].http[i].method = "POST"
     /\ history[k].http[i].url = <<"https://oauth2.googleapis.com/token">>}
DeletesOf(k) ==
  {i \in 1..Len(history[k].http) : history[k].http[i].method = "DELETE"}

\* the DELETE of the k-th invocation carries the token that the token
\* exchange of the k-th invocation returned
OwnToken(k) ==
  \A i \in DeletesOf(k) :
    /\ i > 1
    /\ (i - 1) \in TokenExchangesOf(k)
    /\ history[k].http[i].authorization =
         Str(<<"Bearer ">> \o ToText(history[k].answers[i - 1].access_token))

OwnDelete(x, k) ==
  /\ k > 1
  /\ x.http[k].url = <<"https://iam.googleapis.com">>
                       \o <<"/v1/locations/global/workforcePools/">>
                       \o x.params.workforce_pool_id.s \o <<"/subjects/">>
                       \o x.params.subject_id.s
  /\ x.http[k].authorization = Str(<<"Bearer ">> \o x.answers[k - 1].access_token.s)

\* the answers invocation x received let a lone invocation succeed
AnswersSucceed(x) ==
  /\ Len(x.answers) = 2
  /\ x.answers[1].status \in 200..299
  /\ x.answers[2].status \in 200..299 \cup {404}

\* the error a lone invocation raises on the answers x received
ClassAlone(x) ==
  IF /\ Len(x.answers) = 2
     /\ x.answers[2].status = 429 \/ x.answers[2].status >= 500
  THEN "RetryableError" ELSE "FatalError"

AsIfAlone(x) ==
  /\ \A k \in 1..Len(x.http) : x.http[k].method = "DELETE" => OwnDelete(x, k)
  /\ x.pc = "Succeeded" =>
       /\ AnswersSucceed(x)
       /\ x.returned.workforce_pool_id = x.params.workforce_pool_id
       /\ x.returned.subject_id = x.params.subject_id
       /\ x.thrown = NoError
  /\ x.pc = "Failed" =>
       /\ ~AnswersSucceed(x)
       /\ x.thrown.class = ClassAlone(x)
       /\ x.returned = NoResult

C26_InterleavedInvocationsDoNotInterfere ==
  AsIfAlone(Running) /\ AsIfAlone(parked)

\* one invocation has deleted its subject while the other, for another pair
\* and with another token, still waits for the answer to its DELETE
C26_Witness ==
  /\ pc = "Succeeded"
  /\ parked.pc = "Deleting"
  /\ <<params.workforce_pool_id, params.subject_id>> #
       <<parked.params.workforce_pool_id, parked.params.subject_id>>
  /\ Truthy(accessToken) /\ Truthy(parked.accessToken)
  /\ accessToken # parked.accessToken

(***************************************************************************)
(* C27: provided every request it sends is answered or fails, an invoke of *)
(* script.mjs that has been called ends, either Succeeded with a result    *)
(* and no error, or Failed with a FatalError or RetryableError and no      *)
(* result; on the way it validates, then authenticates, then deletes, in   *)
(* that order, each phase entered from the one before it and none entered  *)
(* again.                                                                  *)
(***************************************************************************)
\* the phase of invoke: validating 1, authenticating 2, deleting 3, ended 4
Phase ==
  CASE pc = "Validating" -> 1
    [] pc \in {"Authenticating", "AwaitToken"} -> 2
    [] pc = "Deleting" -> 3
    [] pc \in {"Succeeded", "Failed"} -> 4
    [] OTHER -> 0

InFlight == Phase \in 1..3

Ended ==
  \/ /\ pc = "Succeeded"
     /\ returned # NoResult
     /\ thrown = NoError
  \/ /\ pc = "Failed"
     /\ thrown.class \in {"FatalError", "RetryableError"}
     /\ thrown.retryable.t = "boolean"
     /\ returned = NoResult

\* a step of a called invocation goes to the next phase, stays in its phase,
\* or ends; it ends with a result only from the deleting phase
PhaseOrder ==
  InFlight =>
    /\ Phase' \in {Phase, Phase + 1, 4}
    /\ pc' = "Succeeded" => Phase = 3
    /\ Phase' = 4 => Ended'

C27_InvokeEndsAfterPhasesInOrder ==
  /\ [][PhaseOrder]_vars
  /\ InFlight ~> Ended

\* an invocation that has validated, authenticated and sent its DELETE has
\* ended with a retryable error
C27_Witness ==
  /\ pc = "Failed"
  /\ thrown.class = "RetryableError"
  /\ Len(http) = 2
  /\ Len(answers) = 2

(***************************************************************************)
(* C28: the handlers of script.mjs leave their inputs as they were given:  *)
(* from the call of invoke until the scheduler has taken its outcome, the  *)
(* params and the context (secrets, env) of the job keep their values,     *)
(* whichever handler runs; when error or halt has returned or thrown, the  *)
(* params it was given are still those the scheduler built, and they stay  *)
(* so until its outcome is taken.                                          *)
(***************************************************************************)
\* the params the scheduler gives to halt, for some reason
HaltInputs ==
  {[reason |-> reason, workforce_pool_id |-> params.workforce_pool_id,
    subject_id |-> params.subject_id] : reason \in Reasons}

InputsKept ==
  /\ (pc # "Start" /\ pc' # "Start") => (params' = params /\ context' = context)
  /\ (errorOut.kind = "none" /\ errorOut'.kind # "none") =>
       (errorIn' = ErrorInput /\ params' = params /\ context' = context)
  /\ (errorOut.kind # "none" /\ errorOut'.kind # "none") => errorIn' = errorIn
  /\ (haltOut.kind = "none" /\ haltOut'.kind # "none") =>
       (haltIn' \in HaltInputs /\ params' = params /\ context' = context)
  /\ (haltOut.kind # "none" /\ haltOut'.kind # "none") => haltIn' = haltIn

C28_HandlersKeepTheirInputs == [][InputsKept]_vars

\* invoke has thrown for a job without a pool identifier, and error and
\* halt have both returned for it
C28_Witness ==
  /\ pc = "Failed"
  /\ ~Truthy(params.workforce_pool_id)
  /\ errorOut.kind = "returned"
  /\ haltOut.kind = "returned"
  /\ errorIn.workforce_pool_id = params.workforce_pool_id
  /\ haltIn.workforce_pool_id = params.workforce_pool_id

====
